---------------------------- MODULE Spec2Model ----------------------------
(***************************************************************************)
(* gameharmony: title normalisation, merge/dedup of scraped rankings and   *)
(* catalog matching, modelled from src/services/{text_utils,merging,       *)
(* matching}.rs and src/matcher/normalize.rs.                              *)
(*                                                                         *)
(* Titles are TLA+ strings, read one character at a time with SubSeq.      *)
(* Module text is ASCII, so the two non-ASCII code points the model's      *)
(* alphabet holds are written with stand-in characters:                    *)
(*     "@"  stands for U+2161 ROMAN NUMERAL TWO        (uppercase)         *)
(*     "#"  stands for U+2171 SMALL ROMAN NUMERAL TWO  (its lowercase)     *)
(* Both are Alphabetic (regex \w) and NFKD-decompose to "II" and "ii".     *)
(***************************************************************************)
EXTENDS Integers, Sequences, FiniteSets, TLC

(***************************************************************************)
(* Character classes of the regex crate (Unicode-aware \w, \s, \d, \b),    *)
(* restricted to the model's alphabet.                                     *)
(***************************************************************************)
LowerLetters == {"a","b","c","d","e","f","g","h","i","j","k","l","m",
                 "n","o","p","q","r","s","t","u","v","w","x","y","z"}
UpperLetters == {"A","B","C","D","E","F","G","H","I","J","K","L","M",
                 "N","O","P","Q","R","S","T","U","V","W","X","Y","Z"}
Digits == {"0","1","2","3","4","5","6","7","8","9"}
RomanTwoUpper == "@"
RomanTwoLower == "#"

IsDigit(c) == c \in Digits
IsSpace(c) == c = " "
IsWordChar(c) == c \in LowerLetters \cup UpperLetters \cup Digits
                       \cup {"_", RomanTwoUpper, RomanTwoLower}

\* TLC evaluates LET definitions and operator arguments on first use.  InOrder
\* evaluates the listed intermediate results one after the other before the
\* result, as the statements of the source do.
InOrder(steps, result) == IF steps = << >> THEN result ELSE result

\* s[i], or "" outside the string
At(s, i) == IF i >= 1 /\ i <= Len(s) THEN SubSeq(s, i, i) ELSE ""
\* the suffix of s from position i on
From(s, i) == IF i > Len(s) THEN "" ELSE SubSeq(s, i, Len(s))
\* lit occurs in s at position i
LitAt(s, i, lit) ==
    /\ i >= 1
    /\ i + Len(lit) - 1 <= Len(s)
    /\ SubSeq(s, i, i + Len(lit) - 1) = lit
\* regex \b at the gap before position i (between s[i-1] and s[i])
WordBoundary(s, i) == IsWordChar(At(s, i - 1)) # IsWordChar(At(s, i))

\* first position >= i that holds no whitespace (regex \s* is greedy)
RECURSIVE SkipSpaces(_, _)
SkipSpaces(s, i) == IF IsSpace(At(s, i)) THEN SkipSpaces(s, i + 1) ELSE i

(***************************************************************************)
(* str::to_lowercase                                                       *)
(***************************************************************************)
LowerOf(c) ==
    CASE c = "A" -> "a" [] c = "B" -> "b" [] c = "C" -> "c" [] c = "D" -> "d"
      [] c = "E" -> "e" [] c = "F" -> "f" [] c = "G" -> "g" [] c = "H" -> "h"
      [] c = "I" -> "i" [] c = "J" -> "j" [] c = "K" -> "k" [] c = "L" -> "l"
      [] c = "M" -> "m" [] c = "N" -> "n" [] c = "O" -> "o" [] c = "P" -> "p"
      [] c = "Q" -> "q" [] c = "R" -> "r" [] c = "S" -> "s" [] c = "T" -> "t"
      [] c = "U" -> "u" [] c = "V" -> "v" [] c = "W" -> "w" [] c = "X" -> "x"
      [] c = "Y" -> "y" [] c = "Z" -> "z"
      [] c = RomanTwoUpper -> RomanTwoLower
      [] OTHER -> c

RECURSIVE to_lowercase(_)
to_lowercase(s) ==
    IF s = "" THEN "" ELSE LowerOf(Head(s)) \o to_lowercase(Tail(s))

(***************************************************************************)
(* Regex::replace_all for the patterns of normalize.  Each XxxEnd(s, i)    *)
(* is the position just after the leftmost-first match that starts at i,   *)
(* or 0 when the pattern does not match at i.                              *)
(***************************************************************************)

\* \s*(?:\(?\d{4}\)?)\b  -- text_utils.rs:44
YearSuffixEnd(s, i) ==
    LET p == SkipSpaces(s, i)
        q == IF At(s, p) = "(" THEN p + 1 ELSE p
        four == /\ IsDigit(At(s, q))     /\ IsDigit(At(s, q + 1))
                /\ IsDigit(At(s, q + 2)) /\ IsDigit(At(s, q + 3))
        e == q + 4
    IN  IF ~four THEN 0
        ELSE IF At(s, e) = ")" /\ WordBoundary(s, e + 1) THEN e + 1
        ELSE IF WordBoundary(s, e) THEN e
        ELSE 0

\* \s*\(\d{4}\)  -- matcher/normalize.rs:37
ParenYearEnd(s, i) ==
    LET p == SkipSpaces(s, i)
    IN  IF /\ At(s, p) = "("
           /\ IsDigit(At(s, p + 1)) /\ IsDigit(At(s, p + 2))
           /\ IsDigit(At(s, p + 3)) /\ IsDigit(At(s, p + 4))
           /\ At(s, p + 5) = ")"
        THEN p + 6 ELSE 0

RECURSIVE StripYearFrom(_, _)
StripYearFrom(s, i) ==
    IF i > Len(s) THEN ""
    ELSE LET e == YearSuffixEnd(s, i)
         IN  IF e # 0 THEN StripYearFrom(s, e)
             ELSE At(s, i) \o StripYearFrom(s, i + 1)

RECURSIVE StripParenYearFrom(_, _)
StripParenYearFrom(s, i) ==
    IF i > Len(s) THEN ""
    ELSE LET e == ParenYearEnd(s, i)
         IN  IF e # 0 THEN StripParenYearFrom(s, e)
             ELSE At(s, i) \o StripParenYearFrom(s, i + 1)

\* \s*<lit>  -- the status patterns, text_utils.rs:60-65
RECURSIVE StripStatusFrom(_, _, _)
StripStatusFrom(s, lit, i) ==
    IF i > Len(s) THEN ""
    ELSE LET p == SkipSpaces(s, i)
         IN  IF LitAt(s, p, lit) THEN StripStatusFrom(s, lit, p + Len(lit))
             ELSE At(s, i) \o StripStatusFrom(s, lit, i + 1)

StripStatus(s) ==
    LET a == StripStatusFrom(s, "(early access)", 1)
        b == StripStatusFrom(a, "early access", 1)
    IN  InOrder(<<a, b>>, StripStatusFrom(b, "(full release)", 1))

\* (?:'\s*s|\s+s)\b  -- text_utils.rs:73
PossessiveEnd(s, i) ==
    LET p == SkipSpaces(s, i + 1)
        q == SkipSpaces(s, i)
    IN  IF At(s, i) = "'" /\ At(s, p) = "s" /\ WordBoundary(s, p + 1)
        THEN p + 1
        ELSE IF q > i /\ At(s, q) = "s" /\ WordBoundary(s, q + 1)
        THEN q + 1
        ELSE 0

RECURSIVE PossessiveFrom(_, _)
PossessiveFrom(s, i) ==
    IF i > Len(s) THEN ""
    ELSE LET e == PossessiveEnd(s, i)
         IN  IF e # 0 THEN "s" \o PossessiveFrom(s, e)
             ELSE At(s, i) \o PossessiveFrom(s, i + 1)

NormalizePossessive(s) == PossessiveFrom(s, 1)

\* [^\w\s-] and [^\w\s]  -- text_utils.rs:77, 144
RECURSIVE StripPunctuation(_, _)
StripPunctuation(s, keepHyphen) ==
    IF s = "" THEN ""
    ELSE LET c == Head(s)
             keep == IsWordChar(c) \/ IsSpace(c) \/ (keepHyphen /\ c = "-")
         IN  (IF keep THEN c ELSE "") \o StripPunctuation(Tail(s), keepHyphen)

\* (\d+) -> " $1 "  -- text_utils.rs:81
RECURSIVE SpaceNumbersFrom(_, _)
SpaceNumbersFrom(s, i) ==
    IF i > Len(s) THEN ""
    ELSE LET c == At(s, i)
             first == IsDigit(c) /\ ~IsDigit(At(s, i - 1))
             last  == IsDigit(c) /\ ~IsDigit(At(s, i + 1))
         IN  (IF first THEN " " ELSE "") \o c \o (IF last THEN " " ELSE "")
                \o SpaceNumbersFrom(s, i + 1)

SpaceNumbers(s) == SpaceNumbersFrom(s, 1)

\* \b<a>[<seps>]<b>\b -> <a><b>  -- text_utils.rs:52-57, 84-87
CompoundEnd(s, i, a, seps, b) ==
    LET j == i + Len(a)
        e == j + 1 + Len(b)
    IN  IF /\ WordBoundary(s, i)
           /\ LitAt(s, i, a)
           /\ At(s, j) \in seps
           /\ LitAt(s, j + 1, b)
           /\ WordBoundary(s, e)
        THEN e ELSE 0

RECURSIVE CompoundFrom(_, _, _, _, _)
CompoundFrom(s, a, seps, b, i) ==
    IF i > Len(s) THEN ""
    ELSE LET e == CompoundEnd(s, i, a, seps, b)
         IN  IF e # 0 THEN a \o b \o CompoundFrom(s, a, seps, b, e)
             ELSE At(s, i) \o CompoundFrom(s, a, seps, b, i + 1)

\* the fixup table with the separator class [-] in place of [\s-]
SpecificGameReplacementsHyphenOnly(s) ==
    LET a == CompoundFrom(s, "half", {"-"}, "life", 1)
    IN  InOrder(<<a>>, CompoundFrom(a, "counter", {"-"}, "strike", 1))

SpecificGameReplacements(s) ==
    LET a == CompoundFrom(s, "half", {" ", "-"}, "life", 1)
    IN  InOrder(<<a>>, CompoundFrom(a, "counter", {" ", "-"}, "strike", 1))

\* (?i)\b<w>\b -> <num>  -- text_utils.rs:90-122
RECURSIVE ReplaceWordFrom(_, _, _, _)
ReplaceWordFrom(s, w, num, i) ==
    IF i > Len(s) THEN ""
    ELSE IF /\ WordBoundary(s, i)
            /\ i + Len(w) - 1 <= Len(s)
            /\ to_lowercase(SubSeq(s, i, i + Len(w) - 1)) = w
            /\ WordBoundary(s, i + Len(w))
         THEN num \o ReplaceWordFrom(s, w, num, i + Len(w))
         ELSE At(s, i) \o ReplaceWordFrom(s, w, num, i + 1)

roman_numerals ==
    << <<"xxv", "25">>, <<"xxiv", "24">>, <<"xxiii", "23">>, <<"xxii", "22">>,
       <<"xxi", "21">>, <<"xx", "20">>, <<"xix", "19">>, <<"xviii", "18">>,
       <<"xvii", "17">>, <<"xvi", "16">>, <<"xv", "15">>, <<"xiv", "14">>,
       <<"xiii", "13">>, <<"xii", "12">>, <<"xi", "11">>, <<"x", "10">>,
       <<"ix", "9">>, <<"viii", "8">>, <<"vii", "7">>, <<"vi", "6">>,
       <<"v", "5">>, <<"iv", "4">>, <<"iii", "3">>, <<"ii", "2">>,
       <<"i", "1">> >>

RECURSIVE ApplyRoman(_, _)
ApplyRoman(s, k) ==
    IF k > Len(roman_numerals) THEN s
    ELSE LET r == ReplaceWordFrom(s, roman_numerals[k][1],
                                  roman_numerals[k][2], 1)
         IN  InOrder(<<r>>, ApplyRoman(r, k + 1))

RomanToArabic(s) == ApplyRoman(s, 1)

\* str::replace(word, num), non-overlapping, left to right -- text_utils.rs:125-141
RECURSIVE ReplaceLitFrom(_, _, _, _)
ReplaceLitFrom(s, lit, rep, i) ==
    IF i > Len(s) THEN ""
    ELSE IF LitAt(s, i, lit)
         THEN rep \o ReplaceLitFrom(s, lit, rep, i + Len(lit))
         ELSE At(s, i) \o ReplaceLitFrom(s, lit, rep, i + 1)

word_numbers ==
    << <<" zero ", " 0 ">>, <<" one ", " 1 ">>, <<" two ", " 2 ">>,
       <<" three ", " 3 ">>, <<" four ", " 4 ">>, <<" five ", " 5 ">>,
       <<" six ", " 6 ">>, <<" seven ", " 7 ">>, <<" eight ", " 8 ">>,
       <<" nine ", " 9 ">>, <<" ten ", " 10 ">> >>

RECURSIVE ApplyWordNumbers(_, _)
ApplyWordNumbers(s, k) ==
    IF k > Len(word_numbers) THEN s
    ELSE LET r == ReplaceLitFrom(s, word_numbers[k][1],
                                 word_numbers[k][2], 1)
         IN  InOrder(<<r>>, ApplyWordNumbers(r, k + 1))

WordNumbersToDigits(s) == ApplyWordNumbers(s, 1)

\* split_whitespace: the sequence of maximal runs of non-whitespace
RECURSIVE SplitFrom(_, _, _)
SplitFrom(s, i, cur) ==
    IF i > Len(s) THEN (IF cur = "" THEN << >> ELSE <<cur>>)
    ELSE IF IsSpace(At(s, i))
         THEN (IF cur = "" THEN << >> ELSE <<cur>>) \o SplitFrom(s, i + 1, "")
         ELSE SplitFrom(s, i + 1, cur \o At(s, i))

split_whitespace(s) == SplitFrom(s, 1, "")

\* [&str]::join(sep)
RECURSIVE JoinWith(_, _)
JoinWith(ws, sep) ==
    IF ws = << >> THEN ""
    ELSE IF Len(ws) = 1 THEN ws[1]
    ELSE ws[1] \o sep \o JoinWith(Tail(ws), sep)

stop_words ==
    {"the", "and", "of", "edition", "remastered", "definitive", "part",
     "collection", "remake", "reincarnation", "rebirth", "ultra", "deluxe",
     "ultimate", "complete", "enhanced", "goty", "expanded", "final", "cut",
     "directors"}

\* text_utils.rs:172-178
RemoveStopWords(s) ==
    JoinWith(SelectSeq(split_whitespace(s),
                       LAMBDA w : to_lowercase(w) \notin stop_words), " ")

\* UnicodeNormalization::nfkd
RECURSIVE nfkd(_)
nfkd(s) ==
    IF s = "" THEN ""
    ELSE (CASE Head(s) = RomanTwoUpper -> "II"
            [] Head(s) = RomanTwoLower -> "ii"
            [] OTHER -> Head(s)) \o nfkd(Tail(s))

\* str::trim
RECURSIVE TrimEnd(_)
TrimEnd(s) ==
    IF s # "" /\ IsSpace(At(s, Len(s))) THEN TrimEnd(SubSeq(s, 1, Len(s) - 1))
    ELSE s

trim(s) == TrimEnd(From(s, SkipSpaces(s, 1)))

(***************************************************************************)
(* TitleNormalizer::normalize  -- services/text_utils.rs:42-182            *)
(***************************************************************************)
normalize(title) ==
    LET t1  == StripYearFrom(to_lowercase(title), 1)
        t2  == to_lowercase(t1)
        t3  == StripStatus(t2)
        t4  == NormalizePossessive(t3)
        t5  == StripPunctuation(t4, TRUE)
        t6  == SpaceNumbers(t5)
        t7  == SpecificGameReplacements(t6)
        t8  == RomanToArabic(t7)
        t9  == WordNumbersToDigits(t8)
        t10 == StripPunctuation(t9, FALSE)
        t11 == RemoveStopWords(t10)
    IN  InOrder(<<t1, t2, t3, t4, t5, t6, t7, t8, t9, t10, t11>>,
                trim(nfkd(t11)))

(***************************************************************************)
(* normalize_title  -- matcher/normalize.rs:35-162                         *)
(***************************************************************************)
normalize_title(title) ==
    LET t1  == StripParenYearFrom(to_lowercase(title), 1)
        t2  == to_lowercase(t1)
        t4  == NormalizePossessive(t2)
        t5  == StripPunctuation(t4, TRUE)
        t6  == SpaceNumbers(t5)
        t7  == SpecificGameReplacements(t6)
        t8  == RomanToArabic(t7)
        t9  == WordNumbersToDigits(t8)
        t10 == StripPunctuation(t9, FALSE)
        t11 == RemoveStopWords(t10)
    IN  InOrder(<<t1, t2, t4, t5, t6, t7, t8, t9, t10, t11>>,
                trim(nfkd(t11)))

(***************************************************************************)
(* Scraper configuration (scraper_config.json, config/mod.rs:11-24): the   *)
(* configured websites, in configuration order.  The pattern of the second *)
(* website also occurs in the URL of the third.                            *)
(***************************************************************************)
Websites ==
    << [url |-> "ign.com/best", display_name |-> "IGN", pattern |-> "ign"],
       [url |-> "polygon.com/best", display_name |-> "Polygon",
        pattern |-> "polygon"],
       [url |-> "polygon.com/ps5", display_name |-> "Polygon PS5",
        pattern |-> "polygon.com/ps5"],
       [url |-> "eurogamer.net/best", display_name |-> "Eurogamer",
        pattern |-> "eurogamer"] >>

\* str::contains
Contains(s, sub) == \E i \in 1..(Len(s) + 1) : LitAt(s, i, sub)

\* TitleNormalizer::normalize_source  -- text_utils.rs:33-38
normalize_source(source) ==
    LET hits == {k \in 1..Len(Websites) : Contains(source, Websites[k].pattern)}
    IN  IF hits = {} THEN source
        ELSE Websites[CHOOSE k \in hits : \A j \in hits : k <= j].display_name

\* char::to_uppercase
UpperOf(c) ==
    LET lower == "abcdefghijklmnopqrstuvwxyz"
        upper == "ABCDEFGHIJKLMNOPQRSTUVWXYZ"
        hits == {k \in 1..26 : SubSeq(lower, k, k) = c}
    IN  IF hits # {} THEN LET k == CHOOSE k \in hits : TRUE IN SubSeq(upper, k, k)
        ELSE IF c = RomanTwoLower THEN RomanTwoUpper
        ELSE c

\* the words format_for_display leaves in lower case  -- text_utils.rs:12
lowercase_words == {"the", "of", "and", "in", "on", "at", "to", "for", "with"}

\* TitleNormalizer::format_for_display  -- text_utils.rs:10-31
format_for_display(title) ==
    LET words == split_whitespace(title)
        shown(i) ==
            IF i = 1 \/ to_lowercase(words[i]) \notin lowercase_words
            THEN UpperOf(At(words[i], 1)) \o From(words[i], 2)
            ELSE to_lowercase(words[i])
    IN  JoinWith([i \in 1..Len(words) |-> shown(i)], " ")

(***************************************************************************)
(* MergingService  -- services/merging.rs                                  *)
(***************************************************************************)

\* Regex \b\d+\b: position just after the match starting at i, or 0
NumberTokenEnd(s, i) ==
    LET RECURSIVE DigitsEnd(_)
        DigitsEnd(j) == IF IsDigit(At(s, j)) THEN DigitsEnd(j + 1) ELSE j
        e == DigitsEnd(i)
    IN  IF IsDigit(At(s, i)) /\ WordBoundary(s, i) /\ WordBoundary(s, e)
        THEN e ELSE 0

\* numbers_re.find_iter(normalized_title)  -- merging.rs:65-68
RECURSIVE NumericTokensFrom(_, _)
NumericTokensFrom(s, i) ==
    IF i > Len(s) THEN << >>
    ELSE LET e == NumberTokenEnd(s, i)
         IN  IF e # 0 THEN <<SubSeq(s, i, e - 1)>> \o NumericTokensFrom(s, e)
             ELSE NumericTokensFrom(s, i + 1)

\* numbers_re.replace_all(normalized_title, "")  -- merging.rs:70-72
RECURSIVE StripNumberTokensFrom(_, _)
StripNumberTokensFrom(s, i) ==
    IF i > Len(s) THEN ""
    ELSE LET e == NumberTokenEnd(s, i)
         IN  IF e # 0 THEN StripNumberTokensFrom(s, e)
             ELSE At(s, i) \o StripNumberTokensFrom(s, i + 1)

\* merging.rs:70-75
NonNumericTitle(normalized_title) ==
    JoinWith(split_whitespace(StripNumberTokensFrom(normalized_title, 1)), " ")

\* the raw titles of the scraped listings
MergeTitles ==
    {"Mass Effect 2", "Mass Effect II", "Mass Effect 3", "Hades"}

\* one GameData  -- merging.rs:63-84
\* (norm is TitleNormalizer::normalize as a table over the raw titles)
GameDataOf(source, game, norm) ==
    LET normalized_title == norm[game.name]
    IN  [original_name     |-> game.name,
         normalized_title  |-> normalized_title,
         numeric_tokens    |-> NumericTokensFrom(normalized_title, 1),
         non_numeric_title |-> NonNumericTitle(normalized_title),
         rank              |-> game.rank,
         source            |-> source]

\* MergingService::prepare_game_data  -- merging.rs:54-89
RECURSIVE prepare_game_data(_, _)
prepare_game_data(wgs, norm) ==
    IF wgs = << >> THEN << >>
    ELSE LET website == Head(wgs)
             source == normalize_source(website.source)
         IN  [k \in 1..Len(website.games) |->
                 GameDataOf(source, website.games[k], norm)]
                \o prepare_game_data(Tail(wgs), norm)

\* HashMap::insert on rankings
InsertRank(rankings, source, rank) ==
    [s \in DOMAIN rankings \cup {source} |->
        IF s = source THEN rank ELSE rankings[s]]

\* one variant key for every game of a title group
VariantKeyIgnoringTokens(game) == ""

\* merging.rs:107
VariantKey(game) == JoinWith(game.numeric_tokens, "_")

\* update_existing_game keeping the rank inserted first
UpdateExistingGameKeepFirst(existing_game, game) ==
    [existing_game EXCEPT
        !.original_names =
            IF \E k \in 1..Len(@) : @[k] = game.original_name THEN @
            ELSE Append(@, game.original_name),
        !.rankings = IF game.source \in DOMAIN @ THEN @
                     ELSE InsertRank(@, game.source, game.rank)]

\* update_existing_game pushing the name without the contains check
UpdateExistingGameAlwaysPush(existing_game, game) ==
    [existing_game EXCEPT
        !.original_names = Append(@, game.original_name),
        !.rankings = InsertRank(@, game.source, game.rank)]

\* update_existing_game without the rankings insert
UpdateExistingGameNamesOnly(existing_game, game) ==
    [existing_game EXCEPT
        !.original_names =
            IF \E k \in 1..Len(@) : @[k] = game.original_name THEN @
            ELSE Append(@, game.original_name)]

\* MergingService::update_existing_game  -- merging.rs:122-131
UpdateExistingGame(existing_game, game) ==
    [existing_game EXCEPT
        !.original_names =
            IF \E k \in 1..Len(@) : @[k] = game.original_name THEN @
            ELSE Append(@, game.original_name),
        !.rankings = InsertRank(@, game.source, game.rank)]

\* a MergedGame created without the title of its first game
NewMergedGameWithoutName(game) ==
    [normalized_name |-> game.normalized_title,
     original_names  |-> << >>,
     rankings        |-> InsertRank(<< >>, game.source, game.rank)]

\* the MergedGame of create_new_merged_game  -- merging.rs:139-148
NewMergedGame(game) ==
    [normalized_name |-> game.normalized_title,
     original_names  |-> <<game.original_name>>,
     rankings        |-> InsertRank(<< >>, game.source, game.rank)]

\* the body of the loop over one group  -- merging.rs:106-114
FoldGame(mg, game) ==
    LET key == VariantKey(game)
    IN  IF key \in DOMAIN mg
        THEN [mg EXCEPT ![key] = UpdateExistingGame(mg[key], game)]
        ELSE [k \in DOMAIN mg \cup {key} |->
                 IF k = key THEN NewMergedGame(game) ELSE mg[k]]

\* the title groups of perform_merge  -- merging.rs:93-99
TitleGroups(gd) ==
    [t \in {gd[k].non_numeric_title : k \in 1..Len(gd)} |->
        SelectSeq(gd, LAMBDA g : g.non_numeric_title = t)]

\* the merged group of one title group  -- merging.rs:104-114
RECURSIVE FoldGroup(_, _)
FoldGroup(mg, games) ==
    IF games = << >> THEN mg
    ELSE FoldGroup(FoldGame(mg, Head(games)), Tail(games))

\* the set of MergedGames perform_merge emits (its Vec without the order)
perform_merge(gd) ==
    LET tg == TitleGroups(gd)
    IN  UNION {LET mg == FoldGroup(<< >>, tg[t])
               IN  {mg[k] : k \in DOMAIN mg} : t \in DOMAIN tg}

(***************************************************************************)
(* MatchingService  -- services/matching.rs                                *)
(***************************************************************************)

\* MatchingConfig::default().similarity_threshold, 0.9 as a fraction
\* -- matching.rs:47
similarity_threshold == [num |-> 9, den |-> 10]

\* the literal occurs in s as a whole word (regex \blit\b)
ContainsWord(s, lit) ==
    \E i \in 1..Len(s) :
        /\ LitAt(s, i, lit)
        /\ WordBoundary(s, i)
        /\ WordBoundary(s, i + Len(lit))

\* Regex::is_match of MatchingConfig::default().dlc_pattern  -- matching.rs:49
\* (?i)(DLC|Soundtrack|OST|Bonus|Season Pass|Content Pack|\bVR\b|\bBeta\b
\*      |\bDemo\b|\bArt\sof\b|\bUpgrade\b|\bPack\b|\bBundle\b)
dlc_pattern_is_match(name) ==
    LET lower == to_lowercase(name)
    IN  \/ \E lit \in {"dlc", "soundtrack", "ost", "bonus", "season pass",
                       "content pack"} : Contains(lower, lit)
        \/ \E lit \in {"vr", "beta", "demo", "art of", "upgrade", "pack",
                       "bundle"} : ContainsWord(lower, lit)

\* one row of the edit-distance table from the row before it
RECURSIVE LevenshteinRow(_, _, _, _)
LevenshteinRow(prev, ca, b, row) ==
    IF Len(row) = Len(b) + 1 THEN row
    ELSE LET j == Len(row)
             substitution == prev[j] + (IF ca = At(b, j) THEN 0 ELSE 1)
             deletion == prev[j + 1] + 1
             insertion == row[j] + 1
             least == IF substitution <= deletion /\ substitution <= insertion
                      THEN substitution
                      ELSE IF deletion <= insertion THEN deletion ELSE insertion
         IN  LevenshteinRow(prev, ca, b, Append(row, least))

RECURSIVE LevenshteinFrom(_, _, _, _)
LevenshteinFrom(a, i, b, prev) ==
    IF i > Len(a) THEN prev[Len(b) + 1]
    ELSE LET row == LevenshteinRow(prev, At(a, i), b, <<prev[1] + 1>>)
         IN  InOrder(row, LevenshteinFrom(a, i + 1, b, row))

\* strsim::levenshtein
levenshtein(a, b) == LevenshteinFrom(a, 1, b, [j \in 1..(Len(b) + 1) |-> j - 1])

\* strsim::normalized_levenshtein, 1.0 - distance / max length, as a fraction
normalized_levenshtein(a, b) ==
    IF a = "" /\ b = "" THEN [num |-> 1, den |-> 1]
    ELSE LET longest == IF Len(a) >= Len(b) THEN Len(a) ELSE Len(b)
         IN  [num |-> longest - levenshtein(a, b), den |-> longest]

\* x > y on fractions with positive denominators
Greater(x, y) == x.num * y.den > y.num * x.den

\* similarity >= threshold in place of similarity > threshold
AtLeastThreshold(similarity, threshold) == ~Greater(threshold, similarity)

\* the filter of find_steam_id  -- matching.rs:307
AboveThreshold(similarity, threshold) == Greater(similarity, threshold)

\* u64::to_string
RECURSIVE to_string(_)
to_string(n) ==
    IF n < 10 THEN SubSeq("0123456789", n + 1, n + 1)
    ELSE to_string(n \div 10) \o SubSeq("0123456789", (n % 10) + 1, (n % 10) + 1)

\* Option<String>
None == << >>
Some(x) == <<x>>

\* the characters of the model's strings in byte order
ByteOrder == " $./0123456789:ABCDEFGHIJKLMNOPQRSTUVWXYZ_abcdefghijklmnopqrstuvwxyz"
ByteRank(c) == CHOOSE k \in 1..Len(ByteOrder) : SubSeq(ByteOrder, k, k) = c

\* str::cmp: a < b
RECURSIVE StrLess(_, _)
StrLess(a, b) ==
    IF b = "" THEN FALSE
    ELSE IF a = "" THEN TRUE
    ELSE IF Head(a) = Head(b) THEN StrLess(Tail(a), Tail(b))
    ELSE ByteRank(Head(a)) < ByteRank(Head(b))

\* the (stable) sort_by of one bucket on the normalized title
\* -- matching.rs:130-132
RECURSIVE InsertSorted(_, _)
InsertSorted(sorted, e) ==
    IF sorted = << >> THEN <<e>>
    ELSE IF StrLess(e.normalized, Head(sorted).normalized)
         THEN <<e>> \o sorted
         ELSE <<Head(sorted)>> \o InsertSorted(Tail(sorted), e)

RECURSIVE SortByNormalized(_)
SortByNormalized(entries) ==
    IF entries = << >> THEN << >>
    ELSE InsertSorted(SortByNormalized(SubSeq(entries, 1, Len(entries) - 1)),
                      entries[Len(entries)])

\* the keys of the pre-initialised letter buckets  -- matching.rs:111-114
BucketKeys == LowerLetters \cup {"0"}

\* step 1 of build_index: filter and normalize  -- matching.rs:83-98
\* (norm is TitleNormalizer::normalize as a table over the raw titles)
ProcessedApps(apps, norm) ==
    LET kept == SelectSeq(apps, LAMBDA app : ~dlc_pattern_is_match(app.name))
    IN  [k \in 1..Len(kept) |-> [app |-> kept[k], normalized |-> norm[kept[k].name]]]

\* AppIndex::build_index  -- matching.rs:63-140
build_index(apps, norm) ==
    LET processed == ProcessedApps(apps, norm)
        keys == {processed[k].normalized : k \in 1..Len(processed)}
        last(n) == CHOOSE k \in 1..Len(processed) :
                       /\ processed[k].normalized = n
                       /\ \A j \in (k + 1)..Len(processed) : processed[j].normalized # n
    IN  [name_index   |-> [n \in keys |-> processed[last(n)].app],
         letter_index |->
             [c \in BucketKeys |->
                 SortByNormalized(
                     SelectSeq(processed, LAMBDA e : At(e.normalized, 1) = c))]]

\* candidates of a bucket with their similarity to the normalized query
\* -- matching.rs:301-306
Similarities(candidates, normalized_search) ==
    [k \in 1..Len(candidates) |->
        [app |-> candidates[k].app,
         similarity |-> normalized_levenshtein(normalized_search,
                                               candidates[k].normalized)]]

\* the operator of rayon's max_by: the left operand only if it compares
\* Greater, the right one otherwise  -- matching.rs:308
MaxOp(a, b) == IF Greater(a.similarity, b.similarity) THEN a ELSE b

\* what reduce_with can return on a non-empty sequence: the operator applied
\* over every way of splitting the sequence into adjacent parts
RECURSIVE ReduceWith(_)
ReduceWith(items) ==
    IF Len(items) = 1 THEN {items[1]}
    ELSE UNION {{MaxOp(a, b) :
                    a \in ReduceWith(SubSeq(items, 1, m)),
                    b \in ReduceWith(SubSeq(items, m + 1, Len(items)))} :
                m \in 1..(Len(items) - 1)}

\* the first candidate of the bucket above the threshold, whatever the
\* similarity of the others
BestCandidatesFirstPassing(candidates, normalized_search, threshold) ==
    LET passing == SelectSeq(Similarities(candidates, normalized_search),
                             LAMBDA c : AboveThreshold(c.similarity, threshold))
    IN  IF passing = << >> THEN {} ELSE {passing[1].app}

\* the apps the filter and the max_by of find_steam_id can yield for a bucket
\* -- matching.rs:301-308
BestCandidates(candidates, normalized_search, threshold) ==
    LET passing == SelectSeq(Similarities(candidates, normalized_search),
                             LAMBDA c : AboveThreshold(c.similarity, threshold))
    IN  IF passing = << >> THEN {} ELSE {c.app : c \in ReduceWith(passing)}

\* find_steam_id without the exact lookup in name_index
FindSteamIdBucketOnly(names, letters, normalized_search, threshold) ==
    IF normalized_search = "" \/ At(normalized_search, 1) \notin DOMAIN letters
    THEN {None}
    ELSE LET best == BestCandidates(letters[At(normalized_search, 1)],
                                    normalized_search, threshold)
         IN  IF best = {} THEN {None} ELSE {Some(to_string(app.appid)) : app \in best}

\* the values MatchingService::find_steam_id can return for a normalized
\* query: one value for each way the parallel max_by reduction can go.
\* -- matching.rs:288-310
find_steam_id(names, letters, normalized_search, threshold) ==
    IF normalized_search \in DOMAIN names
    THEN {Some(to_string(names[normalized_search].appid))}
    ELSE IF normalized_search = "" \/ At(normalized_search, 1) \notin DOMAIN letters
    THEN {None}
    ELSE LET best == BestCandidates(letters[At(normalized_search, 1)],
                                    normalized_search, threshold)
         IN  IF best = {} THEN {None} ELSE {Some(to_string(app.appid)) : app \in best}

(***************************************************************************)
(* Scoring  -- services/scoring.rs                                         *)
(***************************************************************************)

\* The arithmetic is on i32.  The integers of the model checker are of the
\* same width and an operation that leaves the range stops the check, so an
\* overflow of the score cannot go unnoticed within the bounds.

\* a division that rounds the quotient up
CeilDiv(a, b) == (a + b - 1) \div b

\* i32 division: the quotient truncated toward zero
TruncDiv(a, b) == IF a >= 0 THEN a \div b ELSE -((-a) \div b)

\* the sum of f over the keys of a map, as an i32
RECURSIVE SumOver(_, _)
SumOver(f, keys) ==
    IF keys = {} THEN 0
    ELSE LET k == CHOOSE x \in keys : TRUE
         IN  (f[k] + SumOver(f, keys \ {k}))

\* 101 - rank for every rank
PositionCreditUncapped(rank) == (101 - rank)

\* the positional credit of one rank  -- scoring.rs:11
PositionCredit(rank) == IF rank <= 100 THEN (101 - rank) ELSE 0

\* scoring.rs:9-12
position_score(rankings) ==
    SumOver([s \in DOMAIN rankings |-> PositionCredit(rankings[s])], DOMAIN rankings)

\* a multiplier that shrinks by 25 with every further source
AppearanceMultiplierShrinking(rankings) ==
    (100 - (25 * (Cardinality(DOMAIN rankings) - 1)))

\* scoring.rs:21 (for a non-empty map)
appearance_multiplier(rankings) ==
    (100 + (25 * (Cardinality(DOMAIN rankings) - 1)))

\* calculate_harmony_score  -- scoring.rs:3-24
calculate_harmony_score(rankings) ==
    IF DOMAIN rankings = {} THEN 0
    ELSE TruncDiv((position_score(rankings) * appearance_multiplier(rankings)),
                  100)

(***************************************************************************)
(* State.                                                                  *)
(***************************************************************************)
VARIABLES
    normalized,     \* TitleNormalizer::normalize, tabulated on the raw titles
                    \* of the inputs when they are drawn (it is a pure function)
    title,          \* the raw title handed to the normaliser
    called,         \* "none", or the normaliser that ran
    result,         \* what it returned
    website_games,  \* merge_games' argument: Vec<WebsiteGames>
    games_data,     \* Vec<GameData> of prepare_game_data
    title_groups,   \* perform_merge: HashMap non_numeric_title -> Vec<GameData>
    pending,        \* keys of title_groups not yet iterated
    in_group,       \* inside the loop over one group
    group,          \* key of the group being folded
    idx,            \* next game of the group
    merged_group,   \* HashMap variant key -> MergedGame of the group
    merged_games,   \* Vec<MergedGame> being built
    mpc,            \* position in merge_games
    steam_apps,     \* the catalog handed to MatchingService::new
    name_index,     \* MatchingService.name_index
    letter_index,   \* MatchingService.letter_index
    game_name,      \* argument of the last find_steam_id
    steam_id,       \* what it returned
    xpc,            \* "new", "ready" once the service exists, "found" after a lookup
    rankings,       \* argument of calculate_harmony_score
    harmony_score,  \* what it returned
    spc,            \* "start", then "scored"
    skip_cache,     \* config.args.skip_cache of the current run
    run,            \* number of the current run of the program
    ppc,            \* stage the run is about to execute
    error,          \* the GameError variant a failed run ended with
    store_index,    \* cache/steam_apps/index_apps.json
    store_sources,  \* cache/sources/<url>.json: url -> WebsiteGames
    store_merged,   \* cache/enhancements/merged_games.json
    store_matched,  \* cache/enhancements/merged_with_steam_id.json
    store_enriched, \* cache/enhancements/enriched_games.json
    store_manifest, \* data/manifest.json
    scraped,        \* website_games of process
    merged,         \* merged_games of process
    games_with_steam,
    enriched_games,
    games_with_ids, \* enrich_games' argument: Vec<GameWithSteamId>
    responses,      \* what the Steam and RAWG clients answered, per game
    entries,        \* enriched_games of Enrichment::enrich_games
    epc,            \* position in Enrichment::enrich_games
    store_app_info, \* cache/steam_apps/<app_id>.json: app id -> StoreInfo
    call,           \* the last call of a Storage method and its arguments
    loaded          \* what that call returned

normVars == <<title, called, result>>
mergeVars == <<website_games, games_data, title_groups, pending, in_group,
               group, idx, merged_group, merged_games, mpc>>
matchVars == <<steam_apps, name_index, letter_index, game_name, steam_id, xpc>>
scoreVars == <<rankings, harmony_score, spc>>
storeVars == <<store_index, store_sources, store_merged, store_matched,
               store_enriched, store_manifest>>
processVars == <<skip_cache, run, ppc, error, scraped, merged, games_with_steam,
                 enriched_games>>
pipeVars == <<processVars, storeVars>>
enrichVars == <<games_with_ids, responses, entries, epc>>
storeCallVars == <<store_app_info, call, loaded>>
vars == <<normalized, normVars, mergeVars, matchVars, scoreVars, pipeVars,
          enrichVars, storeCallVars>>

NormIdle == title = "" /\ called = "idle" /\ result = ""
MergeIdle ==
    /\ website_games = << >> /\ games_data = << >> /\ title_groups = << >>
    /\ pending = {} /\ in_group = FALSE /\ group = "" /\ idx = 0
    /\ merged_group = << >> /\ merged_games = << >> /\ mpc = "idle"
MatchIdle ==
    /\ steam_apps = << >> /\ name_index = << >> /\ letter_index = << >>
    /\ game_name = "" /\ steam_id = None /\ xpc = "idle"
ScoreIdle == rankings = << >> /\ harmony_score = 0 /\ spc = "idle"
ProcessIdle ==
    /\ skip_cache = FALSE /\ run = 0 /\ ppc = "idle" /\ error = ""
    /\ scraped = << >> /\ merged = {} /\ games_with_steam = {}
    /\ enriched_games = << >>
StoreEmpty ==
    /\ store_index = None
    /\ store_sources = << >> /\ store_merged = None /\ store_matched = None
    /\ store_enriched = None /\ store_manifest = None
PipeIdle == ProcessIdle /\ StoreEmpty
EnrichIdle ==
    games_with_ids = << >> /\ responses = << >> /\ entries = << >> /\ epc = "idle"
NoCall == [method |-> "none", key |-> "", value |-> << >>]
StoreIdle == store_app_info = << >> /\ call = NoCall /\ loaded = None

(***************************************************************************)
(* The normaliser is a pure function: its specification draws a raw title  *)
(* and applies one of the two normalisers to it.                           *)
(***************************************************************************)
\* longest generated word sequence
MaxWords == 3

ConcreteTitles ==
    {"Baldur's Gate III", "baldur s gate 3", "Baldur's Gate", "baldur s gate",
     "Final Fantasy VII", "Final Fantasy 7", "Grand Theft Auto V",
     "Grand Theft Auto 5", "Half-Life 2", "Half Life 2", "HalfLife 2",
     "Counter-Strike 2", "Counter Strike 2", "God of War (2018)", "God of War",
     "Mass Effect 2", "Mass Effect II", "Mass Effect 3", "Mass Effect @",
     "Warhammer 40,000", "Hades (Early Access)", "Hades", "Doom (2016)",
     "a one one b", "Civilization-VI", "Civilization-6", "", "..."}

PossessiveStems == {"Baldur", "Sid Meier", "Tekken 3", "Doom 2016"}
PossessiveForms == {"'s", " s", "s"}
PossessiveRests == {"", " Gate III", " Gate 3"}
PossessiveTitles ==
    {x \o f \o y : x \in PossessiveStems, f \in PossessiveForms,
                    y \in PossessiveRests}

RomanUpper ==
    <<"I", "II", "III", "IV", "V", "VI", "VII", "VIII", "IX", "X", "XI", "XII",
      "XIII", "XIV", "XV", "XVI", "XVII", "XVIII", "XIX", "XX", "XXI", "XXII",
      "XXIII", "XXIV", "XXV">>
Arabic ==
    <<"1", "2", "3", "4", "5", "6", "7", "8", "9", "10", "11", "12", "13",
      "14", "15", "16", "17", "18", "19", "20", "21", "22", "23", "24", "25">>
NumeralPrefixes == {"Final Fantasy ", "Civilization "}
NumeralSuffixes == {"", " Remake", "'s Legacy"}
NumeralTitles ==
    {p \o n \o y : p \in NumeralPrefixes,
                    n \in {RomanUpper[k] : k \in 1..25} \cup {Arabic[k] : k \in 1..25},
                    y \in NumeralSuffixes}

Vocabulary == {"one", "early", "access", "the", "2"}
RECURSIVE WordSequences(_)
WordSequences(n) ==
    IF n = 0 THEN {}
    ELSE Vocabulary \cup WordSequences(n - 1)
           \cup {w \o " " \o v : w \in WordSequences(n - 1), v \in Vocabulary}

Titles == ConcreteTitles \cup PossessiveTitles \cup NumeralTitles
            \cup WordSequences(MaxWords)

InitNorm ==
    /\ normalized = << >>
    /\ title \in Titles
    /\ called = "none"
    /\ result = ""
    /\ MergeIdle
    /\ MatchIdle
    /\ ScoreIdle
    /\ PipeIdle
    /\ EnrichIdle
    /\ StoreIdle

\* TitleNormalizer::normalize(title)
Normalize ==
    /\ called = "none"
    /\ called' = "normalize"
    /\ result' = normalize(title)
    /\ UNCHANGED <<normalized, pipeVars, enrichVars, storeCallVars, scoreVars, title, mergeVars, matchVars>>

\* matcher::normalize::normalize_title(title)
NormalizeTitle ==
    /\ called = "none"
    /\ called' = "normalize_title"
    /\ result' = normalize_title(title)
    /\ UNCHANGED <<normalized, pipeVars, enrichVars, storeCallVars, scoreVars, title, mergeVars, matchVars>>

NextNorm == Normalize \/ NormalizeTitle

SpecNorm == InitNorm /\ [][NextNorm]_vars

(***************************************************************************)
(* The merge: merge_games' computation (prepare_game_data, perform_merge)  *)
(* on a list of per-website rankings, one loop iteration at a time.        *)
(***************************************************************************)
\* most scraped games in all listings together
MaxItems == 3

\* the scraped (name, rank) pairs the listings are drawn from
Entries ==
    {[name |-> "Mass Effect 2", rank |-> 1],
     [name |-> "Mass Effect 2", rank |-> 3],
     [name |-> "Mass Effect II", rank |-> 3],
     [name |-> "Mass Effect 3", rank |-> 1],
     [name |-> "Hades", rank |-> 2]}
Urls == {Websites[k].url : k \in 1..Len(Websites)}

\* the ways to split n games over the listings of the given sources
RECURSIVE Listings(_, _)
Listings(sources, n) ==
    IF sources = << >> THEN {<< >>}
    ELSE UNION {
           {<<[source |-> Head(sources), games |-> games]>> \o tl :
               games \in [1..k -> Entries], tl \in Listings(Tail(sources), n - k)}
           : k \in 0..n}

\* the lists of websites scraped: one website, or two that follow each other
\* in the configuration
SourceLists ==
    {<<u>> : u \in Urls}
        \cup {<<Websites[k].url, Websites[k + 1].url>> :
                 k \in 1..(Len(Websites) - 1)}

WebsiteGamesInputs == UNION {Listings(srcs, MaxItems) : srcs \in SourceLists}

InitMerge ==
    /\ normalized = [t \in MergeTitles |-> normalize(t)]
    /\ NormIdle
    /\ MatchIdle
    /\ ScoreIdle
    /\ PipeIdle
    /\ EnrichIdle
    /\ StoreIdle
    /\ website_games \in WebsiteGamesInputs
    /\ games_data = << >>
    /\ title_groups = << >>
    /\ pending = {}
    /\ in_group = FALSE
    /\ group = ""
    /\ idx = 0
    /\ merged_group = << >>
    /\ merged_games = << >>
    /\ mpc = "prepare"

\* merging.rs:45
PrepareGameData ==
    /\ mpc = "prepare"
    /\ games_data' = prepare_game_data(website_games, normalized)
    /\ mpc' = "group"
    /\ UNCHANGED <<normalized, pipeVars, enrichVars, storeCallVars, scoreVars, normVars, matchVars, website_games, title_groups, pending, in_group,
                   group, idx, merged_group, merged_games>>

\* merging.rs:93-99
GroupByTitle ==
    /\ mpc = "group"
    /\ title_groups' = TitleGroups(games_data)
    /\ pending' = DOMAIN title_groups'
    /\ mpc' = "merge"
    /\ UNCHANGED <<normalized, pipeVars, enrichVars, storeCallVars, scoreVars, normVars, matchVars, website_games, games_data, in_group, group, idx,
                   merged_group, merged_games>>

\* merging.rs:103-104: the next group, in the HashMap's iteration order
StartGroup ==
    /\ mpc = "merge"
    /\ ~in_group
    /\ \E g \in pending :
         /\ group' = g
         /\ pending' = pending \ {g}
    /\ in_group' = TRUE
    /\ idx' = 1
    /\ merged_group' = << >>
    /\ UNCHANGED <<normalized, pipeVars, enrichVars, storeCallVars, scoreVars, normVars, matchVars, website_games, games_data, title_groups,
                   merged_games, mpc>>

\* merging.rs:109-110
UpdateExisting ==
    /\ mpc = "merge"
    /\ in_group
    /\ idx <= Len(title_groups[group])
    /\ VariantKey(title_groups[group][idx]) \in DOMAIN merged_group
    /\ merged_group' = FoldGame(merged_group, title_groups[group][idx])
    /\ idx' = idx + 1
    /\ UNCHANGED <<normalized, pipeVars, enrichVars, storeCallVars, scoreVars, normVars, matchVars, website_games, games_data, title_groups, pending,
                   in_group, group, merged_games, mpc>>

\* merging.rs:111-113
CreateNew ==
    /\ mpc = "merge"
    /\ in_group
    /\ idx <= Len(title_groups[group])
    /\ VariantKey(title_groups[group][idx]) \notin DOMAIN merged_group
    /\ merged_group' = FoldGame(merged_group, title_groups[group][idx])
    /\ idx' = idx + 1
    /\ UNCHANGED <<normalized, pipeVars, enrichVars, storeCallVars, scoreVars, normVars, matchVars, website_games, games_data, title_groups, pending,
                   in_group, group, merged_games, mpc>>

\* merging.rs:116: merged_games.extend(merged_group.into_values())
ExtendMerged ==
    /\ mpc = "merge"
    /\ in_group
    /\ idx > Len(title_groups[group])
    /\ \E order \in [1..Cardinality(DOMAIN merged_group) -> DOMAIN merged_group] :
         /\ \A a, b \in DOMAIN order : order[a] = order[b] => a = b
         /\ merged_games' =
              merged_games \o [k \in DOMAIN order |-> merged_group[order[k]]]
    /\ in_group' = FALSE
    /\ UNCHANGED <<normalized, pipeVars, enrichVars, storeCallVars, scoreVars, normVars, matchVars, website_games, games_data, title_groups, pending,
                   group, idx, merged_group, mpc>>

\* merging.rs:119
ReturnMerged ==
    /\ mpc = "merge"
    /\ ~in_group
    /\ pending = {}
    /\ mpc' = "done"
    /\ UNCHANGED <<normalized, pipeVars, enrichVars, storeCallVars, scoreVars, normVars, matchVars, website_games, games_data, title_groups, pending,
                   in_group, group, idx, merged_group, merged_games>>

NextMerge ==
    \/ PrepareGameData
    \/ GroupByTitle
    \/ StartGroup
    \/ UpdateExisting
    \/ CreateNew
    \/ ExtendMerged
    \/ ReturnMerged

SpecMerge == InitMerge /\ [][NextMerge]_vars

(***************************************************************************)
(* Matching: MatchingService::new on a catalog with an empty store (the    *)
(* index is built), then find_steam_id for scraped names.                  *)
(***************************************************************************)
\* most apps in a catalog
MaxApps == 3

\* the apps catalogs are drawn from
SteamApps ==
    {[appid |-> 220, name |-> "Half-Life 2"],
     [appid |-> 730, name |-> "Counter-Strike 2"],
     [appid |-> 731, name |-> "Counter Strike 2"],
     [appid |-> 740, name |-> "Counter-Strike 3"],
     [appid |-> 251, name |-> "7 Days to Die"],
     [appid |-> 114, name |-> "Hades"],
     [appid |-> 115, name |-> "Hades Soundtrack"],
     [appid |-> 9, name |-> "..."]}

\* the sequences of at most n different apps
RECURSIVE Catalogs(_)
Catalogs(n) ==
    IF n = 0 THEN {<< >>}
    ELSE Catalogs(n - 1)
           \cup {Append(c, app) : c \in {d \in Catalogs(n - 1) : Len(d) = n - 1},
                                  app \in SteamApps}

\* catalogs with two titles long enough to be within the threshold of one
\* query at different distances
CloseCatalogs ==
    LET source == [appid |-> 10, name |-> "Counter-Strike Source"]
        source3 == [appid |-> 13, name |-> "Counter-Strike Source 3"]
    IN  {<<source, source3>>, <<source3, source>>,
         <<source, [appid |-> 114, name |-> "Hades"], source3>>}

\* the names looked up
Queries ==
    {"Half-Life 2", "Half-Life 3", "Counter Strike 2", "Counter-Strike 4",
     "7 Days to Die", "7 Days to Dye", "Hades", "The", "",
     "Counter-Strike Source 2"}

MatchTitles ==
    {app.name : app \in SteamApps} \cup Queries
        \cup UNION {{c[k].name : k \in 1..Len(c)} : c \in CloseCatalogs}

InitMatch ==
    /\ normalized = [t \in MatchTitles |-> normalize(t)]
    /\ NormIdle
    /\ MergeIdle
    /\ ScoreIdle
    /\ PipeIdle
    /\ EnrichIdle
    /\ StoreIdle
    /\ steam_apps \in {c \in Catalogs(MaxApps) :
                          \A a, b \in 1..Len(c) : c[a] = c[b] => a = b}
                         \cup CloseCatalogs
    /\ name_index = << >>
    /\ letter_index = << >>
    /\ game_name = ""
    /\ steam_id = None
    /\ xpc = "new"

\* MatchingService::new with nothing cached  -- matching.rs:192-213
BuildIndex ==
    /\ xpc = "new"
    /\ LET index == build_index(steam_apps, normalized)
       IN  /\ name_index' = index.name_index
           /\ letter_index' = index.letter_index
    /\ xpc' = "ready"
    /\ UNCHANGED <<normalized, pipeVars, enrichVars, storeCallVars, scoreVars, normVars, mergeVars, steam_apps, game_name, steam_id>>

\* MatchingService::find_steam_id(name)  -- matching.rs:288-310
FindSteamId ==
    /\ xpc = "ready"
    /\ \E name \in Queries :
         /\ game_name' = name
         /\ steam_id' \in find_steam_id(name_index, letter_index, normalized[name],
                                        similarity_threshold)
    /\ xpc' = "found"
    /\ UNCHANGED <<normalized, pipeVars, enrichVars, storeCallVars, scoreVars, normVars, mergeVars, steam_apps, name_index, letter_index>>

NextMatch == BuildIndex \/ FindSteamId

SpecMatch == InitMatch /\ [][NextMatch]_vars

(***************************************************************************)
(* Scoring: calculate_harmony_score on a rankings map.                     *)
(***************************************************************************)
\* one source for each scraper type  -- scraping.rs:39-49
ScoreSources == {"ign", "polygon_top_ps5", "polygon", "eurogamer", "rps", "pcgamer"}

\* ranks on both sides of the cut at 100
ScoreRanks == {1, 12, 100, 150}

RankingsInputs == UNION {[S -> ScoreRanks] : S \in SUBSET ScoreSources}

InitScore ==
    /\ normalized = << >>
    /\ NormIdle
    /\ MergeIdle
    /\ MatchIdle
    /\ PipeIdle
    /\ EnrichIdle
    /\ StoreIdle
    /\ rankings \in RankingsInputs
    /\ harmony_score = 0
    /\ spc = "start"

\* calculate_harmony_score(rankings)  -- scoring.rs:3-24
CalculateHarmonyScore ==
    /\ spc = "start"
    /\ harmony_score' = calculate_harmony_score(rankings)
    /\ spc' = "scored"
    /\ UNCHANGED <<normalized, pipeVars, enrichVars, storeCallVars, normVars, mergeVars, matchVars, rankings>>

NextScore == CalculateHarmonyScore

SpecScore == InitScore /\ [][NextScore]_vars

(***************************************************************************)
(* The pipeline: MatchingService::new and GameService::process over a      *)
(* file-system store, run several times on the same cache directory.  A    *)
(* website either fails to scrape or returns one of its pages.  Every      *)
(* write of a file can fail, before the file is touched or after fs::write *)
(* has truncated it; a truncated file does not deserialize.                *)
(***************************************************************************)
MaxRuns == 3

\* a file whose content is not the JSON of a value
Malformed == <<"malformed", "json">>
IsMalformed(file) == Len(file) = 2

\* how a call of write_json_file can end  -- fs_store.rs:46-67
WriteOutcomes == {"written", "refused", "truncated"}

\* the file after write_json_file(data) ended with the outcome
write_json_file(file, data, outcome) ==
    CASE outcome = "written" -> Some(data)
      [] outcome = "refused" -> file
      [] outcome = "truncated" -> Malformed

\* the file name of a website's listing  -- fs_store.rs:105, 112
file_name(url) == ReplaceLitFrom(url, "/", "_", 1)

\* what a scrape of each configured website can return
Pages(url) ==
    CASE url = "ign.com/best" ->
             {<<[name |-> "God of War (2018)", rank |-> 1]>>,
              <<[name |-> "Hades", rank |-> 2]>>}
      [] url = "polygon.com/best" ->
             {<<[name |-> "God of War (2018)", rank |-> 5]>>}
      [] url = "eurogamer.net/best" ->
             {<<[name |-> "God of War (2018)", rank |-> 12]>>}
      [] OTHER -> {<< >>}

\* the Steam catalog fetched for a run
PipelineApps ==
    << [appid |-> 1593500, name |-> "God of War"],
       [appid |-> 1145360, name |-> "Hades"] >>

PipelineCatalogs == {PipelineApps, <<[appid |-> 1145360, name |-> "Hades"]>>}

PipelineTitles == {"God of War (2018)", "Hades", "God of War"}

\* AppIndex::create_indexed_games (created_at, which nothing reads, is left
\* out)  -- matching.rs:142-181
create_indexed_games(index) ==
    [name_index |->
         [k \in DOMAIN index.name_index |->
             [appid |-> index.name_index[k].appid, name |-> index.name_index[k].name]],
     letter_index |->
         [c \in DOMAIN index.letter_index |->
             [k \in 1..Len(index.letter_index[c]) |->
                 <<[appid |-> index.letter_index[c][k].app.appid,
                    name |-> index.letter_index[c][k].app.name],
                   index.letter_index[c][k].normalized>>]]]

\* MatchingService::from_indexed_games  -- matching.rs:215-260
from_indexed_games(indexed) ==
    [name_index |->
         [k \in DOMAIN indexed.name_index |->
             [appid |-> indexed.name_index[k].appid, name |-> indexed.name_index[k].name]],
     letter_index |->
         [c \in DOMAIN indexed.letter_index |->
             [k \in 1..Len(indexed.letter_index[c]) |->
                 [app |-> [appid |-> indexed.letter_index[c][k][1].appid,
                           name |-> indexed.letter_index[c][k][1].name],
                  normalized |-> indexed.letter_index[c][k][2]]]]]

\* ScrapingService::scrape_all: Err at the first website that fails, else the
\* listings in the order of the websites  -- scraping.rs:51-61
RECURSIVE scrape_all(_)
scrape_all(websites) ==
    IF websites = << >> THEN {[ok |-> TRUE, games |-> << >>]}
    ELSE {[ok |-> FALSE, games |-> << >>]}
         \cup UNION {
                {IF rest.ok
                 THEN [ok |-> TRUE,
                       games |-> <<[source |-> Head(websites).url, games |-> page]>>
                                     \o rest.games]
                 ELSE rest : rest \in scrape_all(Tail(websites))}
                : page \in Pages(Head(websites).url)}

\* the source files after the first k writes of save_website_games
\* -- fs_store.rs:103-109
RECURSIVE save_website_games(_, _, _)
save_website_games(files, games, k) ==
    IF k = 0 THEN files
    ELSE LET before == save_website_games(files, games, k - 1)
             name == file_name(games[k].source)
         IN  [f \in DOMAIN before \cup {name} |->
                 IF f = name THEN Some(games[k]) ELSE before[f]]

\* MergingService: prepare_game_data, then perform_merge  -- merging.rs:45-46
MergeOf(wgs) == perform_merge(prepare_game_data(wgs, normalized))

\* the results the map of match_games can collect  -- matching.rs:269-283
MatchOf(mgs) ==
    LET ids(g) == find_steam_id(name_index, letter_index,
                                normalized[g.original_names[1]],
                                similarity_threshold)
        all == UNION {ids(g) : g \in mgs}
    IN  {{[name |-> g.original_names[1], rankings |-> g.rankings,
           steam_id |-> f[g]] : g \in mgs} :
         f \in {f \in [mgs -> all] : \A g \in mgs : f[g] \in ids(g)}}

\* the Game enrich_games builds from one matched game  -- enrichment.rs:40-64
\* (the fields filled from Steam and RAWG are left out: a failed lookup is
\* skipped and none of them changes title, rankings or harmony_score)
EnrichedGame(game) ==
    [title |-> format_for_display(game.name),
     rankings |-> game.rankings,
     steam_id |-> game.steam_id,
     harmony_score |-> calculate_harmony_score(game.rankings)]

\* the sorted lists enrich_games can end with  -- enrichment.rs:38-68
EnrichOf(gws) ==
    LET built == {EnrichedGame(g) : g \in gws}
        n == Cardinality(built)
    IN  {q \in [1..n -> built] :
            /\ \A i, j \in 1..n : q[i] = q[j] => i = j
            /\ \A i, j \in 1..n : i < j => q[i].harmony_score >= q[j].harmony_score}

InitPipeline ==
    /\ normalized = [t \in PipelineTitles |-> normalize(t)]
    /\ NormIdle
    /\ MergeIdle
    /\ ScoreIdle
    /\ EnrichIdle
    /\ StoreIdle
    /\ steam_apps = << >>
    /\ name_index = << >>
    /\ letter_index = << >>
    /\ game_name = ""
    /\ steam_id = None
    /\ xpc = "new"
    /\ skip_cache \in BOOLEAN
    /\ run = 1
    /\ ppc = "new"
    /\ error = ""
    /\ store_index = None
    /\ store_sources = << >>
    /\ store_merged = None
    /\ store_matched = None
    /\ store_enriched = None
    /\ store_manifest = None
    /\ scraped = << >>
    /\ merged = {}
    /\ games_with_steam = {}
    /\ enriched_games = << >>

\* a service that builds its index from the catalog whatever the store holds
NewMatchingServiceRebuilding ==
    /\ ppc = "new"
    /\ \E apps \in PipelineCatalogs :
         LET index_data == create_indexed_games(build_index(apps, normalized))
             service == from_indexed_games(index_data)
         IN  /\ steam_apps' = apps
             /\ store_index' = Some(index_data)
             /\ name_index' = service.name_index
             /\ letter_index' = service.letter_index
             /\ xpc' = "ready"
             /\ ppc' = "scrape"
    /\ UNCHANGED <<normalized, normVars, mergeVars, scoreVars, enrichVars, storeCallVars,
                   game_name, steam_id, skip_cache, run, error, store_sources,
                   store_merged, store_matched, store_enriched, store_manifest, scraped,
                   merged, games_with_steam, enriched_games>>

\* MatchingService::new on the catalog fetched for this run
\* -- matching.rs:192-213
NewMatchingService ==
    /\ ppc = "new"
    /\ \E apps \in PipelineCatalogs :
         /\ steam_apps' = apps
         /\ IF IsMalformed(store_index)
            THEN /\ ppc' = "failed" /\ error' = "Serialization"
                 /\ UNCHANGED <<store_index, name_index, letter_index, xpc>>
            ELSE IF store_index # None
            THEN LET service == from_indexed_games(store_index[1])
                 IN  /\ name_index' = service.name_index
                     /\ letter_index' = service.letter_index
                     /\ xpc' = "ready"
                     /\ ppc' = "scrape"
                     /\ UNCHANGED <<store_index, error>>
            ELSE LET index_data == create_indexed_games(build_index(apps, normalized))
                     service == from_indexed_games(index_data)
                 IN  \E outcome \in WriteOutcomes :
                       /\ store_index' = write_json_file(store_index, index_data, outcome)
                       /\ IF outcome = "written"
                          THEN /\ name_index' = service.name_index
                               /\ letter_index' = service.letter_index
                               /\ xpc' = "ready"
                               /\ ppc' = "scrape"
                               /\ UNCHANGED error
                          ELSE /\ ppc' = "failed" /\ error' = "Io"
                               /\ UNCHANGED <<name_index, letter_index, xpc>>
    /\ UNCHANGED <<normalized, normVars, mergeVars, scoreVars, enrichVars, storeCallVars,
                   game_name, steam_id, skip_cache, run, store_sources, store_merged,
                   store_matched, store_enriched, store_manifest, scraped, merged,
                   games_with_steam, enriched_games>>

\* GameService::scrape_websites  -- game_service.rs:72-101
ScrapeWebsites ==
    /\ ppc = "scrape"
    /\ LET cached(w) == ~skip_cache /\ file_name(w.url) \in DOMAIN store_sources
           in_cache == SelectSeq(Websites, cached)
           to_scrape == SelectSeq(Websites, LAMBDA w : ~cached(w))
       IN  IF \E k \in 1..Len(in_cache) : IsMalformed(store_sources[file_name(in_cache[k].url)])
           THEN /\ ppc' = "failed" /\ error' = "Serialization"
                /\ UNCHANGED <<store_sources, scraped>>
           ELSE LET from_cache == [k \in 1..Len(in_cache) |->
                                      store_sources[file_name(in_cache[k].url)][1]]
                IN  \E res \in scrape_all(to_scrape) :
                      IF ~res.ok
                      THEN /\ ppc' = "failed" /\ error' = "Network"
                           /\ UNCHANGED <<store_sources, scraped>>
                      ELSE LET games == res.games \o from_cache
                           IN  \E k \in 0..Len(games), outcome \in WriteOutcomes :
                                 /\ (outcome = "written") = (k = Len(games))
                                 /\ LET before == save_website_games(store_sources, games, k)
                                    IN  store_sources' =
                                          IF outcome = "truncated"
                                          THEN [f \in DOMAIN before
                                                      \cup {file_name(games[k + 1].source)} |->
                                                   IF f = file_name(games[k + 1].source)
                                                   THEN Malformed ELSE before[f]]
                                          ELSE before
                                 /\ IF k = Len(games)
                                    THEN scraped' = games /\ ppc' = "merge" /\ UNCHANGED error
                                    ELSE scraped' = scraped /\ ppc' = "failed" /\ error' = "Io"
    /\ UNCHANGED <<normalized, normVars, mergeVars, matchVars, scoreVars, enrichVars,
                   storeCallVars, skip_cache, run, store_index, store_merged, store_matched,
                   store_enriched, store_manifest, merged, games_with_steam,
                   enriched_games>>

\* GameService::merge_games, with MergingService::merge_games inside
\* -- game_service.rs:103-114, merging.rs:39-52
MergeGames ==
    /\ ppc = "merge"
    /\ IF IsMalformed(store_merged)
       THEN /\ ppc' = "failed" /\ error' = "Serialization"
            /\ UNCHANGED <<store_merged, merged>>
       ELSE IF store_merged # None /\ ~skip_cache
       THEN /\ merged' = store_merged[1]
            /\ ppc' = "match"
            /\ UNCHANGED <<store_merged, error>>
       ELSE IF store_merged # None
       THEN \* the service returns its cached list, which is saved again
            \E outcome \in WriteOutcomes :
              /\ store_merged' = write_json_file(store_merged, store_merged[1], outcome)
              /\ IF outcome = "written"
                 THEN merged' = store_merged[1] /\ ppc' = "match" /\ UNCHANGED error
                 ELSE merged' = merged /\ ppc' = "failed" /\ error' = "Io"
       ELSE LET games == MergeOf(scraped)
            IN  \E by_service, outcome \in WriteOutcomes :
                  LET saved == write_json_file(store_merged, games, by_service)
                  IN  IF by_service # "written"
                      THEN /\ store_merged' = saved
                           /\ merged' = merged /\ ppc' = "failed" /\ error' = "Io"
                      ELSE /\ store_merged' = write_json_file(saved, games, outcome)
                           /\ IF outcome = "written"
                              THEN merged' = games /\ ppc' = "match" /\ UNCHANGED error
                              ELSE merged' = merged /\ ppc' = "failed" /\ error' = "Io"
    /\ UNCHANGED <<normalized, normVars, mergeVars, matchVars, scoreVars, enrichVars,
                   storeCallVars, skip_cache, run, store_index, store_sources, store_matched,
                   store_enriched, store_manifest, scraped, games_with_steam,
                   enriched_games>>

\* GameService::add_steam_ids, with MatchingService::match_games inside
\* -- game_service.rs:116-127, matching.rs:262-286
AddSteamIds ==
    /\ ppc = "match"
    /\ IF IsMalformed(store_matched)
       THEN /\ ppc' = "failed" /\ error' = "Serialization"
            /\ UNCHANGED <<store_matched, games_with_steam>>
       ELSE IF store_matched # None /\ ~skip_cache
       THEN /\ games_with_steam' = store_matched[1]
            /\ ppc' = "enrich"
            /\ UNCHANGED <<store_matched, error>>
       ELSE \E games \in (IF store_matched # None THEN {store_matched[1]}
                          ELSE MatchOf(merged)) :
              \E outcome \in WriteOutcomes :
                /\ store_matched' = write_json_file(store_matched, games, outcome)
                /\ IF outcome = "written"
                   THEN games_with_steam' = games /\ ppc' = "enrich" /\ UNCHANGED error
                   ELSE UNCHANGED games_with_steam /\ ppc' = "failed" /\ error' = "Io"
    /\ UNCHANGED <<normalized, normVars, mergeVars, matchVars, scoreVars, enrichVars,
                   storeCallVars, skip_cache, run, store_index, store_sources, store_merged,
                   store_enriched, store_manifest, scraped, merged, enriched_games>>

\* GameService::enrich_games, with Enrichment::enrich_games inside
\* -- game_service.rs:129-138, enrichment.rs:30-71
EnrichGames ==
    /\ ppc = "enrich"
    /\ IF IsMalformed(store_enriched)
       THEN /\ ppc' = "failed" /\ error' = "Serialization"
            /\ UNCHANGED <<store_enriched, enriched_games>>
       ELSE IF store_enriched # None
       THEN \* loaded by GameService, or else by Enrichment
            /\ enriched_games' = store_enriched[1]
            /\ ppc' = "manifest"
            /\ UNCHANGED <<store_enriched, error>>
       ELSE \E games \in EnrichOf(games_with_steam) :
              \E outcome \in WriteOutcomes :
                /\ store_enriched' = write_json_file(store_enriched, games, outcome)
                /\ IF outcome = "written"
                   THEN enriched_games' = games /\ ppc' = "manifest" /\ UNCHANGED error
                   ELSE UNCHANGED enriched_games /\ ppc' = "failed" /\ error' = "Io"
    /\ UNCHANGED <<normalized, normVars, mergeVars, matchVars, scoreVars, enrichVars,
                   storeCallVars, skip_cache, run, store_index, store_sources, store_merged,
                   store_matched, store_manifest, scraped, merged, games_with_steam>>

\* a manifest written as soon as the games are matched
SaveFinalManifestBeforeEnrich ==
    /\ ppc \in {"enrich", "manifest"}
    /\ store_manifest' = Some(enriched_games)
    /\ ppc' = "done"
    /\ UNCHANGED <<normalized, normVars, mergeVars, matchVars, scoreVars, enrichVars,
                   storeCallVars, skip_cache, run, error, store_index, store_sources,
                   store_merged, store_matched, store_enriched, scraped, merged,
                   games_with_steam, enriched_games>>

\* GameService::save_final_manifest  -- game_service.rs:140-144
SaveFinalManifest ==
    /\ ppc = "manifest"
    /\ \E outcome \in WriteOutcomes :
         /\ store_manifest' = write_json_file(store_manifest, enriched_games, outcome)
         /\ IF outcome = "written"
            THEN ppc' = "done" /\ UNCHANGED error
            ELSE ppc' = "failed" /\ error' = "Io"
    /\ UNCHANGED <<normalized, normVars, mergeVars, matchVars, scoreVars, enrichVars,
                   storeCallVars, skip_cache, run, store_index, store_sources, store_merged,
                   store_matched, store_enriched, scraped, merged, games_with_steam,
                   enriched_games>>

\* the program is started again on the same cache and data directories
\* -- config/cli.rs:26-28
NextRun ==
    /\ ppc \in {"done", "failed"}
    /\ run < MaxRuns
    /\ run' = run + 1
    /\ skip_cache' \in BOOLEAN
    /\ ppc' = "new"
    /\ error' = ""
    /\ steam_apps' = << >>
    /\ name_index' = << >>
    /\ letter_index' = << >>
    /\ xpc' = "new"
    /\ scraped' = << >>
    /\ merged' = {}
    /\ games_with_steam' = {}
    /\ enriched_games' = << >>
    /\ UNCHANGED <<normalized, normVars, mergeVars, scoreVars, enrichVars, storeCallVars,
                   game_name, steam_id, storeVars>>

NextPipeline ==
    \/ NewMatchingService
    \/ ScrapeWebsites
    \/ MergeGames
    \/ AddSteamIds
    \/ EnrichGames
    \/ SaveFinalManifest
    \/ NextRun

SpecPipeline == InitPipeline /\ [][NextPipeline]_vars

(***************************************************************************)
(* Enrichment::enrich_games on a list of matched games.  Each call of the  *)
(* Steam and RAWG clients fails, answers with nothing, or answers with a   *)
(* record; the loop handles one game per step.                             *)
(***************************************************************************)
\* longest list of matched games
MaxGames == 2

\* Result<T, GameError>
Err == <<"Err">>
Ok(v) == <<"Ok", v>>
IsOk(r) == Len(r) = 2

\* a client that is not called for the game
NotCalled == << >>

\* str::parse::<u64> of a string of digits  -- enrichment.rs:42
RECURSIVE parse_u64(_)
parse_u64(s) ==
    IF s = "" THEN 0
    ELSE parse_u64(SubSeq(s, 1, Len(s) - 1)) * 10
             + (ByteRank(At(s, Len(s))) - ByteRank("0"))

\* ExtendedPlatforms::default  -- steam.rs:104-111
DefaultPlatforms ==
    [windows |-> FALSE, macos |-> FALSE, linux |-> FALSE, steamdeck |-> "",
     switch |-> FALSE]

\* Game::new  -- game.rs:37-55
NewGame(game_title, game_rankings, score) ==
    [title |-> game_title,
     rankings |-> game_rankings,
     platforms |-> DefaultPlatforms,
     stores |-> << >>,
     steam_id |-> None,
     user_score |-> None,
     total_reviews |-> 0,
     price |-> None,
     header_image |-> None,
     metacritic |-> None,
     release_date |-> None,
     reddit_url |-> None,
     metacritic_url |-> None,
     protondb_url |-> None,
     harmony_score |-> score]

\* Game::with_steam_info  -- game.rs:57-67
with_steam_info(self, store_info) ==
    [self EXCEPT !.price = store_info.price,
                 !.platforms = store_info.platforms,
                 !.user_score = Some(store_info.user_score),
                 !.total_reviews = store_info.total_reviews,
                 !.header_image = store_info.header_image,
                 !.metacritic = store_info.metacritic_score,
                 !.metacritic_url = store_info.metacritic_url,
                 !.stores = Append(@, "Steam")]

\* Game::with_steam_deck_info  -- game.rs:69-81
with_steam_deck_info(self, deck_status, id) ==
    IF deck_status.results # None /\ deck_status.results[1].resolved_category > 0
    THEN [self EXCEPT !.platforms.steamdeck = "verified",
                      !.protondb_url = Some("https://www.protondb.com/app/" \o id)]
    ELSE self

\* Vec<String>::sort  -- game.rs:103
RECURSIVE InsertName(_, _)
InsertName(sorted, name) ==
    IF sorted = << >> THEN <<name>>
    ELSE IF StrLess(name, Head(sorted)) THEN <<name>> \o sorted
    ELSE <<Head(sorted)>> \o InsertName(Tail(sorted), name)

RECURSIVE SortNames(_)
SortNames(names) ==
    IF names = << >> THEN << >>
    ELSE InsertName(SortNames(SubSeq(names, 1, Len(names) - 1)), names[Len(names)])

\* the loop over the stores of the RAWG record  -- game.rs:97-102
RECURSIVE PushMissing(_, _)
PushMissing(updated_stores, stores) ==
    IF stores = << >> THEN updated_stores
    ELSE PushMissing(
             IF \E k \in 1..Len(updated_stores) :
                    updated_stores[k] = Head(stores).store.name
             THEN updated_stores
             ELSE Append(updated_stores, Head(stores).store.name),
             Tail(stores))

\* a with_rawg_info that takes every field of the RAWG record it is given
with_rawg_info_overwriting(self, basic, detailed) ==
    [self EXCEPT !.header_image = basic.background_image,
                 !.metacritic = detailed.metacritic,
                 !.release_date = detailed.released,
                 !.reddit_url = detailed.reddit_url,
                 !.metacritic_url = detailed.metacritic_url]

\* Game::with_rawg_info  -- game.rs:83-120
with_rawg_info(self, basic, detailed) ==
    [self EXCEPT
        !.header_image = IF @ = None THEN basic.background_image ELSE @,
        !.platforms.switch =
            IF ~@ THEN \E k \in 1..Len(basic.platforms) :
                           basic.platforms[k].platform.name = "Nintendo Switch"
            ELSE @,
        !.stores = IF basic.stores # None
                   THEN SortNames(PushMissing(@, basic.stores[1]))
                   ELSE @,
        !.metacritic = IF @ = None THEN detailed.metacritic ELSE @,
        !.release_date = IF @ = None THEN detailed.released ELSE @,
        !.reddit_url = IF @ = None THEN detailed.reddit_url ELSE @,
        !.metacritic_url = IF @ = None THEN detailed.metacritic_url ELSE @]

\* the body of the loop of enrich_games for one game and the answers of the
\* three clients.  The RAWG record is handed over alone (enrichment.rs:60);
\* it carries the fields with_rawg_info reads from both of its parameters.
\* -- enrichment.rs:39-64
EnrichEntry(game, store_info, deck_status, rawg) ==
    LET score == calculate_harmony_score(game.rankings)
        created == [NewGame(game.name, game.rankings, score) EXCEPT
                       !.steam_id = IF game.steam_id = None THEN None
                                    ELSE Some(parse_u64(game.steam_id[1]))]
        with_store == IF game.steam_id # None /\ IsOk(store_info)
                         /\ store_info[2] # None
                      THEN with_steam_info(created, store_info[2][1])
                      ELSE created
        with_deck == IF game.steam_id # None /\ IsOk(deck_status)
                     THEN with_steam_deck_info(with_store, deck_status[2],
                                               game.steam_id[1])
                     ELSE with_store
        with_rawg == IF IsOk(rawg) /\ rawg[2] # None
                     THEN with_rawg_info(with_deck, rawg[2][1], rawg[2][1])
                     ELSE with_deck
    IN  [with_rawg EXCEPT !.title = format_for_display(@)]

\* sort_by(|a, b| b.harmony_score.cmp(&a.harmony_score)), which is stable
\* -- enrichment.rs:67
RECURSIVE InsertByScore(_, _)
InsertByScore(sorted, e) ==
    IF sorted = << >> THEN <<e>>
    ELSE IF Head(sorted).harmony_score < e.harmony_score THEN <<e>> \o sorted
    ELSE <<Head(sorted)>> \o InsertByScore(Tail(sorted), e)

RECURSIVE SortByScore(_)
SortByScore(games) ==
    IF games = << >> THEN << >>
    ELSE InsertByScore(SortByScore(SubSeq(games, 1, Len(games) - 1)),
                       games[Len(games)])

\* the matched games the lists are drawn from
EnrichPool ==
    << [name |-> "Hades", rankings |-> [s \in {"IGN"} |-> 2],
        steam_id |-> Some("1145360")],
       [name |-> "the last of us", rankings |-> [s \in {"Eurogamer"} |-> 2],
        steam_id |-> None],
       [name |-> "God of War (2018)",
        rankings |-> [s \in {"IGN", "Polygon"} |-> IF s = "IGN" THEN 1 ELSE 5],
        steam_id |-> Some("1593500")] >>

\* the games of the pool at the positions of a set, in the pool's order
RECURSIVE PoolAt(_, _)
PoolAt(positions, k) ==
    IF k > Len(EnrichPool) THEN << >>
    ELSE (IF k \in positions THEN <<EnrichPool[k]>> ELSE << >>)
             \o PoolAt(positions, k + 1)

GameLists ==
    {PoolAt(positions, 1) :
        positions \in {p \in SUBSET (1..Len(EnrichPool)) : Cardinality(p) <= MaxGames}}

\* StoreInfo  -- steam.rs:92-101
StoreInfoFull ==
    [price |-> Some("$49.99"),
     platforms |-> [windows |-> TRUE, macos |-> FALSE, linux |-> FALSE,
                    steamdeck |-> "", switch |-> FALSE],
     header_image |-> Some("steam/header.jpg"),
     user_score |-> 9,
     total_reviews |-> 1000,
     metacritic_score |-> Some(94),
     metacritic_url |-> Some("metacritic.com/steam")]

StoreInfoBare ==
    [StoreInfoFull EXCEPT !.price = None, !.header_image = None,
                          !.metacritic_score = None, !.metacritic_url = None]

\* what get_store_info can return  -- steam.rs:179-205
StoreInfoResults ==
    {Err, Ok(None), Ok(Some(StoreInfoFull)), Ok(Some(StoreInfoBare))}

\* what get_deck_verified can return  -- steam.rs:237-246
DeckResults ==
    {Err,
     Ok([success |-> 1, results |-> None]),
     Ok([success |-> 1, results |-> Some([resolved_category |-> 0])]),
     Ok([success |-> 1, results |-> Some([resolved_category |-> 3])])}

\* RawgGameDetailed  -- rawg.rs:26-37
RawgFull ==
    [metacritic |-> Some(88),
     released |-> Some("2018-04-20"),
     background_image |-> Some("rawg/background.jpg"),
     reddit_url |-> Some("reddit.com/r/game"),
     metacritic_url |-> Some("metacritic.com/rawg"),
     platforms |-> <<[platform |-> [name |-> "PlayStation 4"]],
                     [platform |-> [name |-> "Nintendo Switch"]]>>,
     stores |-> Some(<<[store |-> [name |-> "PlayStation Store"]],
                       [store |-> [name |-> "Steam"]],
                       [store |-> [name |-> "GOG"]]>>)]

RawgBare ==
    [metacritic |-> None, released |-> None, background_image |-> None,
     reddit_url |-> None, metacritic_url |-> None, platforms |-> << >>,
     stores |-> None]

\* what get_game_info can return  -- rawg.rs:75-130
RawgResults == {Err, Ok(None), Ok(Some(RawgFull)), Ok(Some(RawgBare))}

\* a list of enriched games left by an earlier run
CachedEnriched ==
    <<NewGame("God of War", [s \in {"IGN"} |-> 1], calculate_harmony_score([s \in {"IGN"} |-> 1]))>>

InitEnrich ==
    /\ normalized = << >>
    /\ NormIdle
    /\ MergeIdle
    /\ MatchIdle
    /\ ScoreIdle
    /\ ProcessIdle
    /\ StoreIdle
    /\ store_index = None
    /\ store_sources = << >>
    /\ store_merged = None
    /\ store_matched = None
    /\ store_enriched \in {None, Malformed, Some(CachedEnriched)}
    /\ store_manifest = None
    /\ games_with_ids \in GameLists
    /\ responses = << >>
    /\ entries = << >>
    /\ epc = "start"

\* enrich_games: the snapshot is looked up first  -- enrichment.rs:34-36
LoadEnrichedGames ==
    /\ epc = "start"
    /\ IF IsMalformed(store_enriched)
       THEN epc' = "failed" /\ UNCHANGED entries
       ELSE IF store_enriched # None
       THEN epc' = "cached" /\ entries' = store_enriched[1]
       ELSE epc' = "loop" /\ UNCHANGED entries
    /\ UNCHANGED <<normalized, normVars, mergeVars, matchVars, scoreVars, pipeVars,
                   storeCallVars, games_with_ids, responses>>

\* a loop that gives up at the first call that fails
EnrichGameAborting ==
    /\ epc = "loop"
    /\ Len(entries) < Len(games_with_ids)
    /\ LET game == games_with_ids[Len(entries) + 1]
       IN  \E store_info \in (IF game.steam_id # None THEN StoreInfoResults
                              ELSE {NotCalled}),
              deck_status \in (IF game.steam_id # None THEN DeckResults
                               ELSE {NotCalled}),
              rawg \in RawgResults :
             /\ responses' = Append(responses,
                                    [store_info |-> store_info,
                                     deck_status |-> deck_status, rawg |-> rawg])
             /\ IF Err \in {store_info, deck_status, rawg}
                THEN epc' = "failed" /\ UNCHANGED entries
                ELSE /\ entries' = Append(entries,
                                          EnrichEntry(game, store_info, deck_status, rawg))
                     /\ UNCHANGED epc
    /\ UNCHANGED <<normalized, normVars, mergeVars, matchVars, scoreVars, pipeVars,
                   storeCallVars, games_with_ids>>

\* enrich_games: one turn of the loop  -- enrichment.rs:39-65
EnrichGame ==
    /\ epc = "loop"
    /\ Len(entries) < Len(games_with_ids)
    /\ LET game == games_with_ids[Len(entries) + 1]
       IN  \E store_info \in (IF game.steam_id # None THEN StoreInfoResults
                              ELSE {NotCalled}),
              deck_status \in (IF game.steam_id # None THEN DeckResults
                               ELSE {NotCalled}),
              rawg \in RawgResults :
             /\ responses' = Append(responses,
                                    [store_info |-> store_info,
                                     deck_status |-> deck_status, rawg |-> rawg])
             /\ entries' = Append(entries,
                                  EnrichEntry(game, store_info, deck_status, rawg))
    /\ UNCHANGED <<normalized, normVars, mergeVars, matchVars, scoreVars, pipeVars,
                   storeCallVars, games_with_ids, epc>>

\* enrich_games: after the loop the list is sorted and saved
\* -- enrichment.rs:67-69
SortAndSave ==
    /\ epc = "loop"
    /\ Len(entries) = Len(games_with_ids)
    /\ entries' = SortByScore(entries)
    /\ \E outcome \in WriteOutcomes :
         /\ store_enriched' = write_json_file(store_enriched, entries', outcome)
         /\ epc' = IF outcome = "written" THEN "done" ELSE "failed"
    /\ UNCHANGED <<normalized, normVars, mergeVars, matchVars, scoreVars, processVars,
                   storeCallVars, store_index, store_sources, store_merged,
                   store_matched, store_manifest, games_with_ids, responses>>

NextEnrich ==
    \/ LoadEnrichedGames
    \/ EnrichGame
    \/ SortAndSave

SpecEnrich == InitEnrich /\ [][NextEnrich]_vars

(***************************************************************************)
(* The Storage methods of FileSystemStore, called in any order on one      *)
(* cache directory.  A file of enriched games holds the JSON the serde     *)
(* attributes of Game produce; the other types derive Serialize and        *)
(* Deserialize without attributes and their files are represented by the   *)
(* value the JSON denotes.  Every write succeeds here; writes that fail    *)
(* are part of the pipeline above.                                         *)
(***************************************************************************)
\* the fields of Game that are left out of the JSON when they are None
\* -- game.rs:13-32
SkippedIfNone ==
    {"steam_id", "user_score", "price", "header_image", "metacritic",
     "release_date", "reddit_url", "metacritic_url", "protondb_url"}

GameFields ==
    {"title", "rankings", "platforms", "stores", "total_reviews", "harmony_score"}
        \cup SkippedIfNone

\* serde_json::to_string_pretty of a Game  -- game.rs:7-34
game_to_json(game) ==
    [f \in {g \in DOMAIN game : g \in SkippedIfNone => game[g] # None} |->
        IF f \in SkippedIfNone THEN game[f][1] ELSE game[f]]

\* serde_json::from_str of a Game: a missing Option is None, a missing
\* total_reviews is the default  -- game.rs:7-34
game_from_json(json) ==
    [f \in GameFields |->
        IF f \in SkippedIfNone
        THEN (IF f \in DOMAIN json THEN Some(json[f]) ELSE None)
        ELSE IF f \in DOMAIN json THEN json[f]
        ELSE 0]

games_to_json(games) == [k \in 1..Len(games) |-> game_to_json(games[k])]
games_from_json(json) == [k \in 1..Len(json) |-> game_from_json(json[k])]

\* FileSystemStore::read_json_file  -- fs_store.rs:69-83
read_json_file(file) == IF IsMalformed(file) THEN Err ELSE Ok(file)

\* the file of a website's listing, if there is one
SourceFile(files, url) ==
    IF file_name(url) \in DOMAIN files THEN files[file_name(url)] ELSE None

\* the file of an app's store info, if there is one  -- fs_store.rs:150-156
AppInfoFile(files, app_id) ==
    IF to_string(app_id) \in DOMAIN files THEN files[to_string(app_id)] ELSE None

\* the URLs listings are saved under
StoreUrls == {"ign.com/best", "site.com/top/10", "site.com/top_10"}

\* the listings a call of save_website_games is given: one or more websites,
\* each once
StoreListings ==
    LET page(url) == [source |-> url, games |-> <<[name |-> "Hades", rank |-> 1]>>]
        other == [source |-> "ign.com/best",
                  games |-> <<[name |-> "Hades", rank |-> 2]>>]
    IN  {<<page(u)>> : u \in StoreUrls} \cup {<<other>>}
            \cup {<<page(p[1]), page(p[2])>> :
                      p \in {q \in StoreUrls \X StoreUrls : q[1] # q[2]}}

StoreMerged ==
    {<<[normalized_name |-> "hades", original_names |-> <<"Hades">>,
        rankings |-> [s \in {"IGN"} |-> 1]]>>}

StoreMatched ==
    {<<[name |-> "Hades", rankings |-> [s \in {"IGN"} |-> 1],
        steam_id |-> Some("1145360")]>>}

StoreEnriched ==
    {<<EnrichEntry(EnrichPool[1], Ok(Some(StoreInfoFull)), Err, Ok(None))>>,
     <<EnrichEntry(EnrichPool[2], NotCalled, NotCalled, Ok(Some(RawgFull))),
       EnrichEntry(EnrichPool[1], Err, Err, Err)>>}

StoreIndexes ==
    {create_indexed_games(build_index(apps, [t \in {"Hades"} |-> "hades"])) :
        apps \in {<<[appid |-> 1145360, name |-> "Hades"]>>}}

StoreAppIds == {10, 730}

\* the keys of the store: a kind of snapshot and, for listings and store
\* infos, the URL or the app id
StoreKeys ==
    [kind : {"sources"}, key : StoreUrls]
        \cup [kind : {"app_info"}, key : StoreAppIds]
        \cup [kind : {"index", "merged", "matched", "enriched"}, key : {""}]

\* what the load method of a key returns on the files  -- fs_store.rs:94-172
LoadOf(k) ==
    CASE k.kind = "sources" -> read_json_file(SourceFile(store_sources, k.key))
      [] k.kind = "app_info" -> read_json_file(AppInfoFile(store_app_info, k.key))
      [] k.kind = "index" -> read_json_file(store_index)
      [] k.kind = "merged" -> read_json_file(store_merged)
      [] k.kind = "matched" -> read_json_file(store_matched)
      [] k.kind = "enriched" ->
             IF IsMalformed(store_enriched) THEN Err
             ELSE IF store_enriched = None THEN Ok(None)
             ELSE Ok(Some(games_from_json(store_enriched[1])))

InitStore ==
    /\ normalized = << >>
    /\ NormIdle
    /\ MergeIdle
    /\ MatchIdle
    /\ ScoreIdle
    /\ ProcessIdle
    /\ EnrichIdle
    /\ StoreEmpty
    /\ StoreIdle

\* the variables no Storage method touches
notStoreVars ==
    <<normalized, normVars, mergeVars, matchVars, scoreVars, processVars, enrichVars>>

\* what a save returns
Unit == << >>

\* save_indexed_games  -- fs_store.rs:86-93
CallSaveIndexedGames ==
    /\ \E indexed_games \in StoreIndexes :
         /\ store_index' = write_json_file(store_index, indexed_games, "written")
         /\ call' = [method |-> "save_indexed_games", key |-> "",
                     value |-> indexed_games]
    /\ loaded' = Ok(Unit)
    /\ UNCHANGED <<notStoreVars, store_sources, store_merged, store_matched,
                   store_enriched, store_manifest, store_app_info>>

\* save_website_games  -- fs_store.rs:103-109
CallSaveWebsiteGames ==
    /\ \E listings \in StoreListings :
         /\ store_sources' = save_website_games(store_sources, listings, Len(listings))
         /\ call' = [method |-> "save_website_games", key |-> "", value |-> listings]
    /\ loaded' = Ok(Unit)
    /\ UNCHANGED <<notStoreVars, store_index, store_merged, store_matched,
                   store_enriched, store_manifest, store_app_info>>

\* save_merged_games  -- fs_store.rs:124-131
CallSaveMergedGames ==
    /\ \E games \in StoreMerged :
         /\ store_merged' = write_json_file(store_merged, games, "written")
         /\ call' = [method |-> "save_merged_games", key |-> "", value |-> games]
    /\ loaded' = Ok(Unit)
    /\ UNCHANGED <<notStoreVars, store_index, store_sources, store_matched,
                   store_enriched, store_manifest, store_app_info>>

\* save_matched_games  -- fs_store.rs:141-148
CallSaveMatchedGames ==
    /\ \E games \in StoreMatched :
         /\ store_matched' = write_json_file(store_matched, games, "written")
         /\ call' = [method |-> "save_matched_games", key |-> "", value |-> games]
    /\ loaded' = Ok(Unit)
    /\ UNCHANGED <<notStoreVars, store_index, store_sources, store_merged,
                   store_enriched, store_manifest, store_app_info>>

\* save_app_info  -- fs_store.rs:158-165
CallSaveAppInfo ==
    /\ \E app_id \in StoreAppIds, store_info \in {StoreInfoFull} :
         /\ store_app_info' =
                [f \in DOMAIN store_app_info \cup {to_string(app_id)} |->
                    IF f = to_string(app_id)
                    THEN write_json_file(AppInfoFile(store_app_info, app_id),
                                         store_info, "written")
                    ELSE store_app_info[f]]
         /\ call' = [method |-> "save_app_info", key |-> app_id, value |-> store_info]
    /\ loaded' = Ok(Unit)
    /\ UNCHANGED <<notStoreVars, storeVars>>

\* save_enriched_games  -- fs_store.rs:183-190
CallSaveEnrichedGames ==
    /\ \E games \in StoreEnriched :
         /\ store_enriched' =
                write_json_file(store_enriched, games_to_json(games), "written")
         /\ call' = [method |-> "save_enriched_games", key |-> "", value |-> games]
    /\ loaded' = Ok(Unit)
    /\ UNCHANGED <<notStoreVars, store_index, store_sources, store_merged,
                   store_matched, store_manifest, store_app_info>>

\* load_indexed_games, load_website_games, load_merged_games,
\* load_matched_games, load_app_info, load_enriched_games
\* -- fs_store.rs:94-101, 111-122, 133-139, 150-156, 175-181
CallLoad ==
    /\ \E k \in StoreKeys :
         /\ loaded' = LoadOf(k)
         /\ call' = [method |-> "load", key |-> k, value |-> << >>]
    /\ UNCHANGED <<notStoreVars, storeVars, store_app_info>>

NextStore ==
    \/ CallSaveIndexedGames
    \/ CallSaveWebsiteGames
    \/ CallSaveMergedGames
    \/ CallSaveMatchedGames
    \/ CallSaveAppInfo
    \/ CallSaveEnrichedGames
    \/ CallLoad

SpecStore == InitStore /\ [][NextStore]_vars




(***************************************************************************)
(* Properties of the normalisers, stated on SpecNorm.                      *)
(***************************************************************************)
\* C1: TitleNormalizer::normalize is idempotent: normalizing what normalize
\* returned gives the same string again.
C1_NormalizeIdempotent ==
    called = "normalize" => normalize(result) = result

\* C2: the possessive forms "X's", "X s" and "Xs" of a title normalize to the
\* same string, a whole-word Roman numeral I-XXV normalizes like its Arabic
\* number, and "Baldur's Gate III" and "baldur s gate 3" both give
\* "baldurs gate 3".
C2_VariantsNormalizeIdentically ==
    called = "normalize" =>
        /\ \A x \in PossessiveStems, y \in PossessiveRests :
               title = x \o "s" \o y =>
                   /\ result = normalize(x \o "'s" \o y)
                   /\ result = normalize(x \o " s" \o y)
        /\ \A p \in NumeralPrefixes, k \in 1..25, y \in NumeralSuffixes :
               title = p \o RomanUpper[k] \o y =>
                   result = normalize(p \o Arabic[k] \o y)
        /\ title \in {"Baldur's Gate III", "baldur s gate 3"} =>
               result = "baldurs gate 3"

\* C3: the hyphen, space and joined spellings of a compound of the fixup table
\* normalize identically: "Half-Life 2", "Half Life 2" and "HalfLife 2" give
\* "halflife 2"; "Counter-Strike 2" and "Counter Strike 2" give
\* "counterstrike 2".
C3_CompoundSpellingsAgree ==
    called = "normalize" =>
        /\ title \in {"Half-Life 2", "Half Life 2", "HalfLife 2"} =>
               result = "halflife 2"
        /\ title \in {"Counter-Strike 2", "Counter Strike 2"} =>
               result = "counterstrike 2"

C3_SpaceSpellingNormalized ==
    /\ called = "normalize"
    /\ title = "Half Life 2"
    /\ result = "halflife 2"

\* C4: normalize_title removes a parenthesised year and converts numerals but
\* keeps every other word: "God of War (2018)" and "God of War" give
\* "god of war"; "Final Fantasy VII" and "Final Fantasy 7" give
\* "final fantasy 7".
C4_NormalizeTitleKeepsWords ==
    called = "normalize_title" =>
        /\ title \in {"God of War (2018)", "God of War"} =>
               result = "god of war"
        /\ title \in {"Final Fantasy VII", "Final Fantasy 7"} =>
               result = "final fantasy 7"

(***************************************************************************)
(* Properties of the merge, stated on SpecMerge.                           *)
(***************************************************************************)
\* the original names of a MergedGame, as a set
Names(m) == {m.original_names[k] : k \in 1..Len(m.original_names)}

\* the scraped item g ended up in the MergedGame m
EndedUpIn(g, m) == g.original_name \in Names(m) /\ g.source \in DOMAIN m.rankings

\* the scraped names of the input
ScrapedNames == {games_data[k].original_name : k \in 1..Len(games_data)}

\* C5: two scraped rankings end up in the same MergedGame iff their normalized
\* titles without numeric tokens are identical and their numeric-token
\* sequences are identical; "Mass Effect 2" and "Mass Effect II" merge into one
\* game, "Mass Effect 3" is a second, distinct one, and no MergedGame combines
\* items whose numeric-token sequences differ.
C5_SameGameIffSameKeys ==
    mpc = "done" =>
        /\ \A i, j \in 1..Len(games_data) :
               (\E n \in 1..Len(merged_games) :
                    /\ EndedUpIn(games_data[i], merged_games[n])
                    /\ EndedUpIn(games_data[j], merged_games[n]))
               <=> /\ games_data[i].non_numeric_title = games_data[j].non_numeric_title
                   /\ games_data[i].numeric_tokens = games_data[j].numeric_tokens
        /\ \A n \in 1..Len(merged_games) :
               \A a, b \in Names(merged_games[n]) :
                   NumericTokensFrom(normalized[a], 1) = NumericTokensFrom(normalized[b], 1)
        /\ {"Mass Effect 2", "Mass Effect II"} \subseteq ScrapedNames =>
               \E n \in 1..Len(merged_games) :
                   /\ {"Mass Effect 2", "Mass Effect II"} \subseteq Names(merged_games[n])
                   /\ "Mass Effect 3" \notin Names(merged_games[n])
                   /\ "Mass Effect 3" \in ScrapedNames =>
                          \E k \in 1..Len(merged_games) :
                              k # n /\ "Mass Effect 3" \in Names(merged_games[k])

C5_SequelsSeparated ==
    /\ mpc = "done"
    /\ ScrapedNames = {"Mass Effect 2", "Mass Effect II", "Mass Effect 3"}
    /\ Len(merged_games) = 2
    /\ \E n \in 1..2 :
           /\ Names(merged_games[n]) = {"Mass Effect 2", "Mass Effect II"}
           /\ Cardinality(DOMAIN merged_games[n].rankings) = 2

\* the items of games_data that source s contributed to the MergedGame m
ItemsOf(m, s) ==
    {k \in 1..Len(games_data) :
        games_data[k].source = s /\ games_data[k].original_name \in Names(m)}

\* C6: in every MergedGame each source maps to one rank, and when a source
\* contributes several items to the same bucket the rank kept is the rank of
\* the last such item in processing order.
C6_LastRankOfSourceKept ==
    mpc = "done" =>
        \A n \in 1..Len(merged_games) :
            \A s \in DOMAIN merged_games[n].rankings :
                LET ks == ItemsOf(merged_games[n], s)
                IN  /\ ks # {}
                    /\ merged_games[n].rankings[s] =
                         games_data[CHOOSE k \in ks : \A j \in ks : j <= k].rank

C6_RankOverwritten ==
    /\ mpc = "done"
    /\ \E n \in 1..Len(merged_games) :
           \E s \in DOMAIN merged_games[n].rankings :
               \E k1, k2 \in ItemsOf(merged_games[n], s) :
                   /\ k1 < k2
                   /\ games_data[k1].rank # games_data[k2].rank
                   /\ merged_games[n].rankings[s] = games_data[k2].rank

\* the raw titles of the items folded so far into the bucket of variant key
\* key, in the order they were folded
FoldedTitles(key) ==
    LET folded == SubSeq(title_groups[group], 1, idx - 1)
        items == SelectSeq(folded, LAMBDA g : VariantKey(g) = key)
    IN  [k \in 1..Len(items) |-> items[k].original_name]

\* index of the first occurrence of x in seq
FirstIndex(seq, x) ==
    CHOOSE k \in 1..Len(seq) : seq[k] = x /\ \A j \in 1..(k - 1) : seq[j] # x

\* C7: after any sequence of items folded into a bucket, original_names holds
\* no two identical elements, its elements are in first-seen order, and
\* original_names[0] is the raw title of the first item folded into the bucket.
C7_NamesUniqueFirstSeen ==
    /\ (mpc = "merge" /\ in_group) =>
           \A key \in DOMAIN merged_group :
               LET names == merged_group[key].original_names
                   titles == FoldedTitles(key)
               IN  /\ \A a, b \in 1..Len(names) : names[a] = names[b] => a = b
                   /\ {names[a] : a \in 1..Len(names)} =
                          {titles[k] : k \in 1..Len(titles)}
                   /\ names[1] = titles[1]
                   /\ \A a, b \in 1..Len(names) :
                          a < b => FirstIndex(titles, names[a]) < FirstIndex(titles, names[b])
    /\ \A n \in 1..Len(merged_games) :
           LET names == merged_games[n].original_names
           IN  \A a, b \in 1..Len(names) : names[a] = names[b] => a = b

C7_RepeatedTitleFolded ==
    /\ mpc = "merge"
    /\ in_group
    /\ \E key \in DOMAIN merged_group :
           /\ FoldedTitles(key) = <<"Mass Effect II", "Mass Effect 2", "Mass Effect II">>
           /\ merged_group[key].original_names = <<"Mass Effect II", "Mass Effect 2">>

\* the buckets of a collection of MergedGames: set of original names and
\* source-to-rank mapping of each
Buckets(games) == {[names |-> Names(m), rankings |-> m.rankings] : m \in games}

\* the permutations of a sequence
Reorderings(seq) ==
    {[k \in 1..Len(seq) |-> seq[p[k]]] :
        p \in {q \in [1..Len(seq) -> 1..Len(seq)] :
                  \A a, b \in 1..Len(seq) : q[a] = q[b] => a = b}}

\* merge produces the same buckets for every permutation of the listings
SameBucketsInEveryOrder ==
    \A perm \in Reorderings(website_games) :
        Buckets(perform_merge(prepare_game_data(perm, normalized))) =
            Buckets({merged_games[n] : n \in 1..Len(merged_games)})

\* the listings resolve to pairwise different source names
DistinctSources ==
    \A a, b \in 1..Len(website_games) :
        normalize_source(website_games[a].source) =
            normalize_source(website_games[b].source) => a = b

\* C8 (as stated): for every permutation of the list of per-source rankings,
\* merge produces the same set of buckets, each with the same set of original
\* names and the same source-to-rank mapping.
C8_OrderInsensitive ==
    mpc = "done" => SameBucketsInEveryOrder

\* C8 (amended): the same, for lists whose entries resolve to pairwise
\* different source names.
C8_OrderInsensitiveDistinctSources ==
    (mpc = "done" /\ DistinctSources) => SameBucketsInEveryOrder

C8_TwoSourcesShareBucket ==
    /\ mpc = "done"
    /\ DistinctSources
    /\ Len(website_games) = 2
    /\ \E n \in 1..Len(merged_games) :
           /\ Cardinality(DOMAIN merged_games[n].rankings) = 2
           /\ Len(merged_games[n].original_names) = 2
    /\ SameBucketsInEveryOrder

(***************************************************************************)
(* Properties of the matching, stated on SpecMatch.                        *)
(***************************************************************************)
\* the bucket find_steam_id searches for the normalized query ns
BucketOf(ns) ==
    IF ns # "" /\ At(ns, 1) \in DOMAIN letter_index
    THEN letter_index[At(ns, 1)] ELSE << >>

\* the entries of the query's bucket whose similarity to it exceeds the
\* configured threshold
Passing(ns) ==
    {k \in 1..Len(BucketOf(ns)) :
        Greater(normalized_levenshtein(ns, BucketOf(ns)[k].normalized),
                similarity_threshold)}

\* C9: if the normalized query is a key of the exact index, find returns the
\* id stored under that key, even when another entry of the bucket of the same
\* first character passes the similarity threshold.
C9_ExactMatchWins ==
    (xpc = "found" /\ normalized[game_name] \in DOMAIN name_index) =>
        steam_id = Some(to_string(name_index[normalized[game_name]].appid))

C9_ExactHitBesideCloseEntry ==
    /\ xpc = "found"
    /\ normalized[game_name] \in DOMAIN name_index
    /\ \E k \in Passing(normalized[game_name]) :
           /\ BucketOf(normalized[game_name])[k].normalized # normalized[game_name]
           /\ steam_id # Some(to_string(BucketOf(normalized[game_name])[k].app.appid))
    /\ steam_id = Some(to_string(name_index[normalized[game_name]].appid))

\* C10: without an exact match, a candidate whose similarity equals the
\* threshold is rejected and one above it is accepted: find returns an id iff
\* some candidate of the bucket is strictly above the threshold, and the id
\* returned is that of a candidate strictly above it.
C10_StrictThreshold ==
    (xpc = "found" /\ normalized[game_name] \notin DOMAIN name_index) =>
        LET ns == normalized[game_name]
        IN  /\ steam_id # None <=> Passing(ns) # {}
            /\ steam_id # None =>
                   \E k \in Passing(ns) :
                       steam_id = Some(to_string(BucketOf(ns)[k].app.appid))

C10_CandidateAtThresholdRejected ==
    /\ xpc = "found"
    /\ normalized[game_name] \notin DOMAIN name_index
    /\ \E k \in 1..Len(BucketOf(normalized[game_name])) :
           LET similarity == normalized_levenshtein(
                                 normalized[game_name],
                                 BucketOf(normalized[game_name])[k].normalized)
           IN  similarity.num * similarity_threshold.den =
                   similarity_threshold.num * similarity.den
    /\ steam_id = None

\* the passing entries of the query's bucket of maximal similarity
MaximalPassing(ns) ==
    {k \in Passing(ns) :
        \A j \in Passing(ns) :
            ~Greater(normalized_levenshtein(ns, BucketOf(ns)[j].normalized),
                     normalized_levenshtein(ns, BucketOf(ns)[k].normalized))}

\* C11: when several approximate-match candidates share the maximum
\* similarity, the id find returns depends only on the set of catalog entries
\* and the query: it is the same for every order of the catalog handed to the
\* index build and for every way the max_by reduction can go.
C11_TieBreakDeterministic ==
    LET ns == normalized[game_name]
    IN  (/\ xpc = "found"
         /\ ns \notin DOMAIN name_index
         /\ Cardinality(MaximalPassing(ns)) > 1)
        => \A apps \in Reorderings(steam_apps) :
               LET index == build_index(apps, normalized)
               IN  find_steam_id(index.name_index, index.letter_index, ns,
                                 similarity_threshold) = {steam_id}

\* C12: the index build places every surviving catalog entry whose normalized
\* title starts with a digit into the one catch-all digit bucket, and find for
\* a query whose normalized form starts with a digit searches that bucket for
\* approximate matches.
C12_DigitTitlesShareBucket ==
    /\ xpc \in {"ready", "found"} =>
           \A k \in 1..Len(steam_apps) :
               (/\ ~dlc_pattern_is_match(steam_apps[k].name)
                /\ IsDigit(At(normalized[steam_apps[k].name], 1)))
               => \E j \in 1..Len(letter_index["0"]) :
                      letter_index["0"][j].app = steam_apps[k]
    /\ LET ns == normalized[game_name]
       IN  (xpc = "found" /\ ns \notin DOMAIN name_index /\ IsDigit(At(ns, 1))) =>
               (steam_id # None <=>
                    \E j \in 1..Len(letter_index["0"]) :
                        Greater(normalized_levenshtein(
                                    ns, letter_index["0"][j].normalized),
                                similarity_threshold))

\* C13: a query whose normalized form is the empty string is unmatchable:
\* find returns no id for it, for every catalog.
C13_EmptyQueryUnmatchable ==
    (xpc = "found" /\ normalized[game_name] = "") => steam_id = None

(***************************************************************************)
(* Properties of the scoring, stated on SpecScore.                         *)
(***************************************************************************)
\* the sum of the positional credits 101 - rank of the ranks up to 100
RECURSIVE CreditSum(_, _)
CreditSum(r, sources) ==
    IF sources = {} THEN 0
    ELSE LET s == CHOOSE x \in sources : TRUE
         IN  (IF r[s] <= 100 THEN 101 - r[s] ELSE 0) + CreditSum(r, sources \ {s})

C15_ScoreMonotone ==
    spc = "scored" =>
        /\ \A r \in ScoreRanks, s \in ScoreSources \ DOMAIN rankings :
               (\A t \in DOMAIN rankings : rankings[t] = r) =>
                   calculate_harmony_score(
                       [t \in DOMAIN rankings \cup {s} |-> r]) >= harmony_score
        /\ \A s \in DOMAIN rankings :
               rankings[s] + 1 <= 100 =>
                   calculate_harmony_score(
                       [rankings EXCEPT ![s] = rankings[s] + 1]) < harmony_score
        /\ \A s \in DOMAIN rankings :
               rankings[s] > 100 =>
                   position_score(rankings) =
                       position_score([t \in DOMAIN rankings \ {s} |-> rankings[t]])

C15_TwoSourcesSameRank ==
    /\ spc = "scored"
    /\ rankings = [s \in {"ign", "polygon"} |-> 12]
    /\ harmony_score = 222
    /\ calculate_harmony_score([s \in {"ign", "polygon", "rps"} |-> 12]) = 400
    /\ calculate_harmony_score([rankings EXCEPT !["ign"] = 13]) = 221

\* C18: for every non-empty rankings map the appearance multiplier lies
\* between 100 and 200 percent.
C18_MultiplierAtMostTwo ==
    (spc = "scored" /\ DOMAIN rankings # {}) =>
        /\ appearance_multiplier(rankings) >= 100
        /\ appearance_multiplier(rankings) <= 200

(***************************************************************************)
(* Properties of the pipeline, stated on SpecPipeline.                     *)
(***************************************************************************)
\* the first run, on an empty cache, has passed the enrich stage after three
\* sources reported "God of War (2018)" at ranks 1, 5 and 12 and nothing else
GodOfWarScenario ==
    /\ run = 1
    /\ ppc \in {"manifest", "done"}
    /\ {scraped[k] : k \in {j \in 1..Len(scraped) : scraped[j].games # << >>}} =
           {[source |-> "ign.com/best",
             games |-> <<[name |-> "God of War (2018)", rank |-> 1]>>],
            [source |-> "polygon.com/best",
             games |-> <<[name |-> "God of War (2018)", rank |-> 5]>>],
            [source |-> "eurogamer.net/best",
             games |-> <<[name |-> "God of War (2018)", rank |-> 12]>>]}

GodOfWarRankings ==
    [s \in {"IGN", "Polygon", "Eurogamer"} |->
        IF s = "IGN" THEN 1 ELSE IF s = "Polygon" THEN 5 ELSE 12]

\* C16 as stated: in the scenario the single resulting game has the rankings
\* of the three sources and harmony_score 437.
C16_ScenarioScores437 ==
    GodOfWarScenario =>
        /\ Len(enriched_games) = 1
        /\ enriched_games[1].rankings = GodOfWarRankings
        /\ enriched_games[1].harmony_score = 437

\* C16: in the scenario the single resulting game has the rankings of the
\* three sources and harmony_score (100 + 96 + 89) * 150 / 100 = 427, the
\* quotient 427.5 truncated.
C16_ScenarioScores427 ==
    GodOfWarScenario =>
        /\ Len(enriched_games) = 1
        /\ enriched_games[1].rankings = GodOfWarRankings
        /\ enriched_games[1].harmony_score = 427

C16_ScenarioCompleted ==
    /\ GodOfWarScenario
    /\ ppc = "done"
    /\ store_manifest = Some(enriched_games)
    /\ Len(enriched_games) = 1
    /\ enriched_games[1].harmony_score = ((100 + 96 + 89) * 150) \div 100

\* C17: in the scenario the pipeline emits exactly one game and its title is
\* "God of War", without the year.
C17_ScenarioTitleWithoutYear ==
    GodOfWarScenario =>
        /\ Len(enriched_games) = 1
        /\ enriched_games[1].title = "God of War"

\* C19: each of the stages merge, match and enrich returns its snapshot if
\* and only if the snapshot exists and skip-cache is not requested; otherwise
\* it returns what it computes from its input, and the snapshot it leaves is
\* what it returns.
C19_SnapshotUsedIffNotSkipCache ==
    [][/\ (ppc = "merge" /\ ppc' = "match") =>
              /\ merged' = IF store_merged # None /\ ~skip_cache
                           THEN store_merged[1] ELSE MergeOf(scraped)
              /\ store_merged' = Some(merged')
       /\ (ppc = "match" /\ ppc' = "enrich") =>
              /\ IF store_matched # None /\ ~skip_cache
                 THEN games_with_steam' = store_matched[1]
                 ELSE games_with_steam' \in MatchOf(merged)
              /\ store_matched' = Some(games_with_steam')
       /\ (ppc = "enrich" /\ ppc' = "manifest") =>
              /\ IF store_enriched # None /\ ~skip_cache
                 THEN enriched_games' = store_enriched[1]
                 ELSE enriched_games' \in EnrichOf(games_with_steam)
              /\ store_enriched' = Some(enriched_games')]_vars

\* C20: a stage that fails leaves the store as it found it.
C20_FailedStageWritesNothing ==
    [][ppc' = "failed" => UNCHANGED storeVars]_vars

\* the stages of process in the order of its statements
StageOrder == <<"new", "scrape", "merge", "match", "enrich", "manifest", "done">>

\* C26: the stages run in the order scrape, merge, match, enrich, publish; a
\* stage starts only when the one before it has returned successfully, a
\* failed stage is followed by no other stage of the same run, each stage's
\* result is produced only by that stage, and the manifest is written only
\* after the enrich stage has succeeded.
C26_StagesInOrder ==
    [][/\ ppc' # ppc =>
              \/ \E k \in 1..6 : ppc = StageOrder[k] /\ ppc' \in {StageOrder[k + 1], "failed"}
              \/ ppc \in {"done", "failed"} /\ ppc' = "new" /\ run' = run + 1
       /\ run' = run =>
              /\ scraped' # scraped => ppc = "scrape" /\ ppc' = "merge"
              /\ merged' # merged => ppc = "merge" /\ ppc' = "match"
              /\ games_with_steam' # games_with_steam => ppc = "match" /\ ppc' = "enrich"
              /\ enriched_games' # enriched_games => ppc = "enrich" /\ ppc' = "manifest"
       /\ store_manifest' # store_manifest =>
              /\ ppc = "manifest"
              /\ \/ ppc' = "done" /\ store_manifest' = Some(enriched_games)
                 \/ ppc' = "failed" /\ store_manifest' = Malformed]_vars

C26_RunPublished ==
    /\ run = 1
    /\ ppc = "done"
    /\ Len(scraped) = Len(Websites)
    /\ merged # {}
    /\ games_with_steam # {}
    /\ store_enriched = Some(enriched_games)
    /\ store_manifest = Some(enriched_games)
    /\ Len(enriched_games) = 2

\* C28: in a run without skip-cache the merged games are the merge of the
\* listings the scrape stage of that run returned, the matched games come
\* from that run's merged games and the enriched games from that run's
\* matched games.
C28_DownstreamCoherent ==
    ~skip_cache =>
        /\ ppc \in {"match", "enrich", "manifest", "done"} => merged = MergeOf(scraped)
        /\ ppc \in {"enrich", "manifest", "done"} => games_with_steam \in MatchOf(merged)
        /\ ppc \in {"manifest", "done"} => enriched_games \in EnrichOf(games_with_steam)

\* C30: the scrape stage returns one WebsiteGames for each configured website,
\* in configuration order, whatever was loaded from the cache.
C30_ScrapedInConfigurationOrder ==
    scraped # << >> =>
        /\ Len(scraped) = Len(Websites)
        /\ \A k \in 1..Len(scraped) : scraped[k].source = Websites[k].url

(***************************************************************************)
(* Further properties of the merge, stated on SpecMerge.                   *)
(***************************************************************************)
\* C29: every raw title of the input is among the original_names of exactly
\* one emitted MergedGame, whose rankings have the source of every item with
\* that title as a key; there are as many MergedGames as distinct pairs of
\* group key and variant key; no MergedGame has empty original_names or
\* empty rankings.
C29_MergePartitionsInput ==
    mpc = "done" =>
        /\ \A i \in 1..Len(games_data) :
               LET holders == {n \in 1..Len(merged_games) :
                                  games_data[i].original_name \in Names(merged_games[n])}
               IN  /\ Cardinality(holders) = 1
                   /\ \A n \in holders :
                          games_data[i].source \in DOMAIN merged_games[n].rankings
        /\ Len(merged_games) =
               Cardinality({<<games_data[i].non_numeric_title, VariantKey(games_data[i])>> :
                               i \in 1..Len(games_data)})
        /\ \A n \in 1..Len(merged_games) :
               /\ merged_games[n].original_names # << >>
               /\ DOMAIN merged_games[n].rankings # {}

C29_TwoGamesFromThreeItems ==
    /\ mpc = "done"
    /\ Len(games_data) = 3
    /\ Len(merged_games) = 2
    /\ \E n \in 1..2 : Names(merged_games[n]) = {"Mass Effect 2", "Mass Effect II"}
    /\ \E n \in 1..2 : merged_games[n].original_names = <<"Mass Effect 3">>

(***************************************************************************)
(* Further properties of the matching, stated on SpecMatch.                *)
(***************************************************************************)
\* C27: when the normalized query is not a key of the exact index, find
\* returns an id iff some candidate of the bucket of the query's first
\* character is strictly above the threshold; the id is that of a candidate
\* whose similarity is maximal in that bucket; an entry of another bucket is
\* never returned.
C27_BestOfOwnBucketOnly ==
    (xpc = "found" /\ normalized[game_name] \notin DOMAIN name_index) =>
        LET ns == normalized[game_name]
        IN  /\ steam_id # None <=> Passing(ns) # {}
            /\ Passing(ns) # {} =>
                   \E k \in MaximalPassing(ns) :
                       /\ steam_id = Some(to_string(BucketOf(ns)[k].app.appid))
                       /\ \A j \in 1..Len(BucketOf(ns)) :
                              ~Greater(normalized_levenshtein(ns, BucketOf(ns)[j].normalized),
                                       normalized_levenshtein(ns, BucketOf(ns)[k].normalized))
            /\ \A c \in DOMAIN letter_index \ {At(ns, 1)} :
                   \A k \in 1..Len(letter_index[c]) :
                       steam_id # Some(to_string(letter_index[c][k].app.appid))

C27_CloserOfTwoPassingReturned ==
    /\ xpc = "found"
    /\ game_name = "Counter-Strike Source 2"
    /\ normalized[game_name] \notin DOMAIN name_index
    /\ Cardinality(Passing(normalized[game_name])) = 2
    /\ Cardinality(MaximalPassing(normalized[game_name])) = 1
    /\ \E c \in DOMAIN letter_index \ {At(normalized[game_name], 1)} :
           letter_index[c] # << >>
    /\ steam_id = Some("13")

\* the index the matching service of the run holds
ServiceIndex == [name_index |-> name_index, letter_index |-> letter_index]

\* C25: MatchingService::new builds the index exactly when the store holds
\* no index snapshot.  With a snapshot the service holds the snapshot's index
\* and the store is left alone, whatever catalog was supplied; without one
\* the service holds the index of the supplied catalog and the snapshot of
\* that index is in the store when the service exists, so before any lookup.
C25_IndexBuiltIffNoSnapshot ==
    [][/\ (ppc = "new" /\ ppc' = "scrape") =>
              /\ xpc' = "ready"
              /\ IF store_index = None
                 THEN /\ ServiceIndex' = build_index(steam_apps', normalized)
                      /\ store_index' = Some(create_indexed_games(ServiceIndex'))
                 ELSE /\ ServiceIndex' = from_indexed_games(store_index[1])
                      /\ store_index' = store_index
       /\ (ppc = "new" /\ ppc' = "failed") =>
              /\ UNCHANGED <<ServiceIndex, xpc>>
              /\ store_index # None => store_index' = store_index
       /\ ppc \in {"scrape", "merge", "match", "enrich", "manifest", "done"} =>
              /\ xpc = "ready"
              /\ store_index # None
              /\ ServiceIndex = from_indexed_games(store_index[1])
              /\ store_index' = store_index]_vars

\* a run whose catalog has God of War uses the snapshot an earlier run built
\* from a catalog without it: the game is not in the index
C25_SnapshotOfOlderCatalogUsed ==
    /\ run = 2
    /\ ppc = "scrape"
    /\ steam_apps = PipelineApps
    /\ store_index # None
    /\ ServiceIndex = from_indexed_games(store_index[1])
    /\ ServiceIndex # build_index(steam_apps, normalized)
    /\ "god of war" \notin DOMAIN name_index

\* C21: a snapshot that does not deserialize is treated as an absent one.  No
\* run ends with a Serialization error, and a stage (or the index build) that
\* finds a malformed snapshot and succeeds returns what it computes.
C21_MalformedSnapshotIsAbsence ==
    [][/\ error' # "Serialization"
       /\ (ppc = "new" /\ IsMalformed(store_index) /\ ppc' = "scrape") =>
              ServiceIndex' = build_index(steam_apps', normalized)
       /\ (ppc = "merge" /\ IsMalformed(store_merged) /\ ppc' = "match") =>
              merged' = MergeOf(scraped)
       /\ (ppc = "match" /\ IsMalformed(store_matched) /\ ppc' = "enrich") =>
              games_with_steam' \in MatchOf(merged)
       /\ (ppc = "enrich" /\ IsMalformed(store_enriched) /\ ppc' = "manifest") =>
              enriched_games' \in EnrichOf(games_with_steam)]_vars

(***************************************************************************)
(* Properties of the enrichment, stated on SpecEnrich.                     *)
(***************************************************************************)
\* the record a client returned, if it returned one
Answered(r) == IsOk(r) /\ r[2] # None

\* C23: a call of a client that fails or answers with nothing never ends
\* enrich_games.  The loop emits one game for every matched game, in order,
\* with its title, rankings and score; the fields only the failed call could
\* fill are absent; the stage fails only on its snapshot, read or written;
\* and the list it returns has as many games as it was given.
C23_FailedCallDegrades ==
    /\ epc \in {"loop", "done", "failed"} => Len(responses) \in {0, Len(entries)}
    /\ epc = "loop" =>
           \A i \in 1..Len(entries) :
               LET game == games_with_ids[i]
                   entry == entries[i]
                   answers == responses[i]
               IN  /\ entry.title = format_for_display(game.name)
                   /\ entry.rankings = game.rankings
                   /\ entry.harmony_score = calculate_harmony_score(game.rankings)
                   /\ ~Answered(answers.store_info) =>
                          /\ entry.price = None
                          /\ entry.user_score = None
                          /\ entry.total_reviews = 0
                          /\ ~entry.platforms.windows
                   /\ ~IsOk(answers.deck_status) =>
                          /\ entry.protondb_url = None
                          /\ entry.platforms.steamdeck = ""
                   /\ ~Answered(answers.rawg) =>
                          /\ entry.release_date = None
                          /\ entry.reddit_url = None
                          /\ ~entry.platforms.switch
                   /\ ~Answered(answers.store_info) /\ ~Answered(answers.rawg) =>
                          /\ entry.header_image = None
                          /\ entry.metacritic = None
                          /\ entry.metacritic_url = None
                          /\ entry.stores = << >>
    /\ epc = "failed" =>
           \/ IsMalformed(store_enriched)
           \/ Len(entries) = Len(games_with_ids)
    /\ epc = "done" =>
           /\ Len(entries) = Len(games_with_ids)
           /\ {entries[i].title : i \in 1..Len(entries)} =
                  {format_for_display(games_with_ids[i].name) :
                      i \in 1..Len(games_with_ids)}
           /\ store_enriched = Some(entries)

\* every call for the first of two games failed, the second was answered,
\* and both games are in the list enrich_games returned
C23_GameWithoutAnswersEmitted ==
    /\ epc = "done"
    /\ Len(games_with_ids) = 2
    /\ Len(entries) = 2
    /\ responses[1] = [store_info |-> Err, deck_status |-> Err, rawg |-> Err]
    /\ Answered(responses[2].store_info)
    /\ entries[2].title = "Hades"
    /\ entries[2].price = None
    /\ entries[1].title = "God of War (2018)"
    /\ entries[1].price # None

\* the first of two values that is not null
FirstNonNull(first, second) == IF first # None THEN first ELSE second

\* C24: each of header image, critic score, critic score url, release date
\* and discussion url of an emitted game is the value of the store record
\* if that record has one, else the value of the RAWG record; a value of the
\* store record is never replaced.
C24_FirstNonNullWins ==
    epc = "loop" =>
        \A i \in 1..Len(entries) :
            LET entry == entries[i]
                steam == IF Answered(responses[i].store_info)
                         THEN responses[i].store_info[2][1]
                         ELSE [header_image |-> None, metacritic_score |-> None,
                               metacritic_url |-> None]
                rawg == IF Answered(responses[i].rawg)
                        THEN responses[i].rawg[2][1]
                        ELSE RawgBare
            IN  /\ entry.header_image =
                       FirstNonNull(steam.header_image, rawg.background_image)
                /\ entry.metacritic =
                       FirstNonNull(steam.metacritic_score, rawg.metacritic)
                /\ entry.metacritic_url =
                       FirstNonNull(steam.metacritic_url, rawg.metacritic_url)
                /\ entry.release_date = rawg.released
                /\ entry.reddit_url = rawg.reddit_url

\* one game got every field from both records and keeps the store's values,
\* another got a store record without them and has the RAWG values
C24_BothRecordsSupplied ==
    /\ epc = "loop"
    /\ Len(entries) = 2
    /\ responses[1].store_info = Ok(Some(StoreInfoFull))
    /\ responses[1].rawg = Ok(Some(RawgFull))
    /\ entries[1].header_image = Some("steam/header.jpg")
    /\ entries[1].metacritic = Some(94)
    /\ entries[1].release_date = Some("2018-04-20")
    /\ responses[2].store_info = Ok(Some(StoreInfoBare))
    /\ responses[2].rawg = Ok(Some(RawgFull))
    /\ entries[2].header_image = Some("rawg/background.jpg")
    /\ entries[2].metacritic = Some(88)

(***************************************************************************)
(* Properties of the store, stated on SpecStore.                           *)
(***************************************************************************)
\* the keys a call of a save method was given, each with its value
SavedBy(c) ==
    CASE c.method = "save_website_games" ->
             {[k |-> [kind |-> "sources", key |-> c.value[i].source], v |-> c.value[i]] :
                 i \in 1..Len(c.value)}
      [] c.method = "save_app_info" ->
             {[k |-> [kind |-> "app_info", key |-> c.key], v |-> c.value]}
      [] c.method = "save_indexed_games" ->
             {[k |-> [kind |-> "index", key |-> ""], v |-> c.value]}
      [] c.method = "save_merged_games" ->
             {[k |-> [kind |-> "merged", key |-> ""], v |-> c.value]}
      [] c.method = "save_matched_games" ->
             {[k |-> [kind |-> "matched", key |-> ""], v |-> c.value]}
      [] c.method = "save_enriched_games" ->
             {[k |-> [kind |-> "enriched", key |-> ""], v |-> c.value]}
      [] OTHER -> {}

SameKey(a, b) == a.kind = b.kind /\ a.key = b.key

\* C22: after a save, loading a key that was saved returns the value saved
\* under it, and loading any other key returns what it returned before.
C22_RoundTripAndIndependence ==
    [][/\ \A s \in SavedBy(call') : LoadOf(s.k)' = Ok(Some(s.v))
       /\ \A k \in StoreKeys :
              (\A s \in SavedBy(call') : ~SameKey(s.k, k)) => LoadOf(k)' = LoadOf(k)]_vars

=============================================================================
